---- MODULE Spec2Model ----
(***************************************************************************)
(* State-machine model of mcp_router_use: the two client facades           *)
(* (MCPClient in client.py, MCPRouterClient in router_client.py), their    *)
(* session maps and active lists, and the register / start / list calls    *)
(* they issue to the MCP Router.                                            *)
(*                                                                         *)
(* Every client method is one action.  A method's body is a pure operator  *)
(* from the client object (`self`) and the environment's answers to the    *)
(* set of its possible results; the action picks one result and installs   *)
(* it.  The router's HTTP replies and each session's disconnect outcome    *)
(* are the environment's choices.                                          *)
(***************************************************************************)
EXTENDS Integers, Sequences, FiniteSets, TLC

VARIABLES
    kind,              \* which facade was constructed: "MCPClient" or "MCPRouterClient"
    router_url,        \* config["mcpRouter"]["router_url"], or None
    mcpRouter,         \* config["mcpRouter"]: its auth_token and its headers mapping
    router_headers,    \* the headers sent with router calls (router_headers / connector.headers)
    mcpServers,        \* config["mcpServers"]: name -> descriptor
    sessions,          \* self.sessions: insertion-ordered dict name -> session object
    active_sessions,   \* self.active_sessions: list of names
    next_session,      \* identity of the next MCPSession object constructed
    disconnect_calls,  \* per session object: how often disconnect() was awaited on it
    conn,              \* an MCPRouterConnector object: its flag, handles and server id
    pending,           \* the create_session invocation in flight: its phase and locals
    closing,           \* the close_session / close_all_sessions in flight: its await and locals
    last               \* what the most recent method invocation did and how it ended

vars == <<kind, router_url, mcpRouter, router_headers, mcpServers, sessions, active_sessions,
          next_session, disconnect_calls, conn, pending, closing, last>>

(***************************************************************************)
(* Bounds of the model.                                                    *)
(***************************************************************************)
MaxSessionObjects == 2   \* MCPSession objects constructed in one behaviour
MaxDisconnects == 2      \* disconnect() calls on one session object
MaxResults == 2          \* entries in a registration reply's results list
MaxListed == 1           \* entries in a list reply
MaxConnects == 3         \* connect() calls on the connector object

(***************************************************************************)
(* Values.                                                                 *)
(***************************************************************************)
None == "None"
\* Two server names: enough for a pair of sessions, one failing and one not
Names == {"server1", "server2"}
Ids == {"id1", "id2"}
RouterUrl == "http://localhost:3282"

\* Python truthiness of an Optional[str]
Falsy(x) == x = None \/ x = ""
Truthy(x) == ~Falsy(x)

\* Header mappings: name -> value
Tokens == {"t1", "t2"}
HeaderNames == {"Authorization", "X-Custom"}
HeaderValues == {"Basic abc", "v1"}
HeaderMaps == UNION {[D -> HeaderValues] : D \in SUBSET HeaderNames}
NoHeaders == [n \in {} |-> None]
Bearer(token) == "Bearer " \o token
\* d[name] = value
HeaderSet(d, name, value) ==
    [n \in DOMAIN d \cup {name} |-> IF n = name THEN value ELSE d[n]]
\* d.update(e)
HeaderUpdate(d, e) ==
    [n \in DOMAIN d \cup DOMAIN e |-> IF n \in DOMAIN e THEN e[n] ELSE d[n]]
\* config["mcpRouter"]: auth_token is None when the key is absent, and
\* has_headers tells whether the key "headers" is there
RouterConfigs ==
    {c \in [auth_token : Tokens \cup {None}, has_headers : BOOLEAN, headers : HeaderMaps] :
        ~c.has_headers => c.headers = NoHeaders}
NoRouterConfig == [auth_token |-> None, has_headers |-> FALSE, headers |-> NoHeaders]

\* MCPClient.__init__: self.router_headers
MCPClient_router_headers(router_config) ==
    LET authed == IF router_config.auth_token # None
                  THEN HeaderSet(NoHeaders, "Authorization", Bearer(router_config.auth_token))
                  ELSE NoHeaders
    IN  IF router_config.has_headers
        THEN HeaderUpdate(authed, router_config.headers)
        ELSE authed

\* MCPRouterConnector.__init__: self.headers = headers or {}, then the token.
\* aliased: self.headers is the very mapping that was passed in, so the write
\* of Authorization lands in the caller's mapping
MCPRouterConnector_init(auth_token, has_headers, headers) ==
    LET aliased == has_headers /\ headers # NoHeaders
        own == IF aliased THEN headers ELSE NoHeaders
    IN  [aliased |-> aliased,
         headers |-> IF Truthy(auth_token)
                     THEN HeaderSet(own, "Authorization", Bearer(auth_token))
                     ELSE own]

\* A descriptor: whether it has both "command" and "args", and its cached server_id
Descriptors == [command : BOOLEAN, server_id : Ids \cup {None}]

(***************************************************************************)
(* Python dict (insertion ordered) and list operations.                    *)
(***************************************************************************)
DictHas(d, k) == \E i \in 1..Len(d) : d[i].key = k
DictGet(d, k) == d[CHOOSE i \in 1..Len(d) : d[i].key = k].val
DictKeys(d) == [i \in 1..Len(d) |-> d[i].key]
DictVals(d) == [i \in 1..Len(d) |-> d[i].val]
DictDel(d, k) == SelectSeq(d, LAMBDA e : e.key # k)
DictSet(d, k, v) ==
    IF DictHas(d, k)
    THEN [i \in 1..Len(d) |-> IF d[i].key = k THEN [key |-> k, val |-> v] ELSE d[i]]
    ELSE Append(d, [key |-> k, val |-> v])

ListHas(l, x) == \E i \in 1..Len(l) : l[i] = x
\* list.remove(x): drops the first occurrence only
ListRemove(l, x) ==
    LET i == CHOOSE j \in 1..Len(l) : l[j] = x /\ \A m \in 1..(j - 1) : l[m] # x
    IN  SubSeq(l, 1, i - 1) \o SubSeq(l, i + 1, Len(l))
Range(s) == {s[i] : i \in 1..Len(s)}
Count(s, x) == Cardinality({i \in 1..Len(s) : s[i] = x})

(***************************************************************************)
(* The client object and the result of one method invocation.              *)
(***************************************************************************)
Self == [kind |-> kind, router_url |-> router_url, mcpServers |-> mcpServers,
         sessions |-> sessions, active_sessions |-> active_sessions]

NoConnector == [type |-> "none"]
\* the router's reply to a directly called register/start/list and what came
\* back; kind "none": no request was answered
NoAnswer ==
    [reply |-> [kind |-> "none", status |-> 0, hasResults |-> FALSE, results |-> <<>>,
                success |-> FALSE, listing |-> <<>>],
     ret |-> None, listing |-> <<>>]

\* A method that returns normally, having touched nothing
Returned(self) ==
    [self |-> self, exc |-> None, calls |-> <<>>, attempted |-> <<>>,
     failed |-> <<>>, errors |-> <<>>, ret |-> None, listing |-> <<>>,
     connector |-> NoConnector, server_id |-> None,
     session |-> 0, initialized |-> 0, answer |-> NoAnswer]

\* A method that raises exc, having touched nothing
Raised(self, exc) == [Returned(self) EXCEPT !.exc = exc]

(***************************************************************************)
(* MCPSession.disconnect(): the environment decides which session objects' *)
(* disconnect raises (`failing`).  A result lists the session objects whose *)
(* disconnect was awaited (`attempted`) and those whose disconnect raised  *)
(* (`failed`).                                                             *)
(***************************************************************************)
DisconnectRaises(session, failing) == session \in failing

(***************************************************************************)
(* MCPClient.close_session (client.py)                                     *)
(***************************************************************************)
\* Faulty variant: the name stays in the active list
MCPClient_close_session_keeps_active(self, server_name, failing) ==
    IF DictHas(self.sessions, server_name)
    THEN LET session == DictGet(self.sessions, server_name)
         IN  IF DisconnectRaises(session, failing)
             THEN [Raised(self, "Exception") EXCEPT !.attempted = <<session>>,
                                                    !.failed = <<session>>]
             ELSE [Returned([self EXCEPT !.sessions = DictDel(@, server_name)])
                   EXCEPT !.attempted = <<session>>]
    ELSE Returned(self)

MCPClient_close_session(self, server_name, failing) ==
    IF DictHas(self.sessions, server_name)
    THEN LET session == DictGet(self.sessions, server_name)
         IN  IF DisconnectRaises(session, failing)
             THEN \* the await raises: the del and the remove are never reached
                  [Raised(self, "Exception") EXCEPT !.attempted = <<session>>,
                                                    !.failed = <<session>>]
             ELSE [Returned([self EXCEPT
                       !.sessions = DictDel(@, server_name),
                       !.active_sessions =
                           IF ListHas(@, server_name)
                           THEN ListRemove(@, server_name) ELSE @])
                   EXCEPT !.attempted = <<session>>]
    ELSE Returned(self)

(***************************************************************************)
(* MCPClient.close_all_sessions (client.py)                                *)
(***************************************************************************)
\* Faulty variant: the removal sits after the await instead of in a finally block
MCPClient_close_all_step_no_finally(r, server_name, failing) ==
    LET self == r.self
        has == DictHas(self.sessions, server_name)
        session == IF has THEN DictGet(self.sessions, server_name) ELSE 0
        failed == ~has \/ DisconnectRaises(session, failing)
    IN  [r EXCEPT
           !.attempted = IF has THEN Append(@, session) ELSE @,
           !.failed = IF has /\ DisconnectRaises(session, failing)
                      THEN Append(@, session) ELSE @,
           !.errors = IF failed THEN Append(@, server_name) ELSE @,
           !.self = IF failed THEN self ELSE [self EXCEPT
               !.sessions = DictDel(@, server_name),
               !.active_sessions =
                   IF ListHas(@, server_name) THEN ListRemove(@, server_name) ELSE @]]

\* One iteration of the for loop: try / except Exception / finally
MCPClient_close_all_step(r, server_name, failing) ==
    LET self == r.self
        has == DictHas(self.sessions, server_name)
        session == IF has THEN DictGet(self.sessions, server_name) ELSE 0
        \* self.sessions[server_name] raises KeyError when the entry is gone
        failed == ~has \/ DisconnectRaises(session, failing)
    IN  [r EXCEPT
           !.attempted = IF has THEN Append(@, session) ELSE @,
           !.failed = IF has /\ DisconnectRaises(session, failing)
                      THEN Append(@, session) ELSE @,
           !.errors = IF failed THEN Append(@, server_name) ELSE @,
           !.self = [self EXCEPT
               !.sessions = IF has THEN DictDel(@, server_name) ELSE @,
               !.active_sessions =
                   IF ListHas(@, server_name) THEN ListRemove(@, server_name) ELSE @]]

RECURSIVE MCPClient_close_all_loop(_, _, _)
MCPClient_close_all_loop(r, server_names, failing) ==
    IF server_names = <<>> THEN r
    ELSE MCPClient_close_all_loop(
             MCPClient_close_all_step(r, Head(server_names), failing),
             Tail(server_names), failing)

\* Faulty variant: the collected errors are only logged
MCPClient_close_all_raise_never(r) == r

\* if errors: raise Exception("Disconnect failed")
MCPClient_close_all_raise(r) ==
    IF r.errors # <<>> THEN [r EXCEPT !.exc = "Exception"] ELSE r

MCPClient_close_all_sessions(self, failing) ==
    MCPClient_close_all_raise(
        MCPClient_close_all_loop(Returned(self), DictKeys(self.sessions), failing))

(***************************************************************************)
(* MCPRouterClient.close_session (router_client.py)                        *)
(***************************************************************************)
\* Faulty variant: no try/finally, as in MCPClient.close_session
MCPRouterClient_close_session_no_finally(self, server_name, failing) ==
    IF ~DictHas(self.sessions, server_name)
    THEN Returned(self)
    ELSE LET session == DictGet(self.sessions, server_name)
         IN  IF DisconnectRaises(session, failing)
             THEN [Raised(self, "Exception") EXCEPT !.attempted = <<session>>,
                                               !.failed = <<session>>]
             ELSE [Returned([self EXCEPT
                       !.sessions = DictDel(@, server_name),
                       !.active_sessions =
                           IF ListHas(@, server_name)
                           THEN ListRemove(@, server_name) ELSE @])
                   EXCEPT !.attempted = <<session>>]

\* Faulty variant: a missing session is an error, as the method's docstring announces
MCPRouterClient_close_session_strict(self, server_name, failing) ==
    IF ~DictHas(self.sessions, server_name)
    THEN Raised(self, "ValueError")
    ELSE LET session == DictGet(self.sessions, server_name)
         IN  [Returned([self EXCEPT
                  !.sessions = DictDel(@, server_name),
                  !.active_sessions =
                      IF ListHas(@, server_name)
                      THEN ListRemove(@, server_name) ELSE @])
              EXCEPT !.attempted = <<session>>,
                     !.failed = IF DisconnectRaises(session, failing)
                                THEN <<session>> ELSE <<>>]

MCPRouterClient_close_session(self, server_name, failing) ==
    IF ~DictHas(self.sessions, server_name)
    THEN Returned(self)
    ELSE LET session == DictGet(self.sessions, server_name)
         IN  \* except Exception logs and swallows; finally removes
             [Returned([self EXCEPT
                  !.sessions = DictDel(@, server_name),
                  !.active_sessions =
                      IF ListHas(@, server_name)
                      THEN ListRemove(@, server_name) ELSE @])
              EXCEPT !.attempted = <<session>>,
                     !.failed = IF DisconnectRaises(session, failing)
                                THEN <<session>> ELSE <<>>]

(***************************************************************************)
(* MCPRouterClient.close_all_sessions (router_client.py)                   *)
(***************************************************************************)
MCPRouterClient_close_all_step(r, server_name, failing) ==
    LET c == MCPRouterClient_close_session(r.self, server_name, failing)
    IN  [r EXCEPT
           !.self = c.self,
           !.attempted = @ \o c.attempted,
           !.failed = @ \o c.failed,
           \* except Exception around close_session: appended only if it raised
           !.errors = IF c.exc # None THEN Append(@, server_name) ELSE @]

\* Faulty variant: the loop ends at the first session whose disconnect raised
RECURSIVE MCPRouterClient_close_all_loop_until_failure(_, _, _)
MCPRouterClient_close_all_loop_until_failure(r, server_names, failing) ==
    IF server_names = <<>> \/ r.failed # <<>> THEN r
    ELSE MCPRouterClient_close_all_loop_until_failure(
             MCPRouterClient_close_all_step(r, Head(server_names), failing),
             Tail(server_names), failing)

RECURSIVE MCPRouterClient_close_all_loop(_, _, _)
MCPRouterClient_close_all_loop(r, server_names, failing) ==
    IF server_names = <<>> THEN r
    ELSE MCPRouterClient_close_all_loop(
             MCPRouterClient_close_all_step(r, Head(server_names), failing),
             Tail(server_names), failing)

\* Faulty variant: a failed disconnect is reported to the caller, as in MCPClient
MCPRouterClient_close_all_sessions_raising(self, failing) ==
    LET r == MCPRouterClient_close_all_loop(Returned(self), DictKeys(self.sessions), failing)
    IN  IF r.failed # <<>> THEN [r EXCEPT !.exc = "Exception"] ELSE r

\* the errors are only logged; nothing is raised
MCPRouterClient_close_all_sessions(self, failing) ==
    MCPRouterClient_close_all_loop(Returned(self), DictKeys(self.sessions), failing)

(***************************************************************************)
(* close_session and close_all_sessions await by await.                    *)
(*                                                                         *)
(* The only await of either method is the disconnect of one session.  An   *)
(* invocation in flight is a record: its method (op), whether it awaits a  *)
(* disconnect (stage), the name and the session object of that await, the  *)
(* names close_all_sessions copied (snapshot) and those it has not come to *)
(* (todo), its errors list, whether a disconnect it awaited raised, and    *)
(* what it found when it was called: the session map and the active list   *)
(* (before), the number of sessions built so far (built), and the name of  *)
(* a create_session in flight while it awaited (beside).                   *)
(***************************************************************************)
Closing(op, name) ==
    [op |-> op, stage |-> "idle", name |-> name, session |-> 0,
     snapshot |-> <<>>, todo |-> <<>>, errors |-> <<>>, raised |-> FALSE,
     before |-> [sessions |-> <<>>, active_sessions |-> <<>>],
     built |-> 0, beside |-> None]

\* close_session up to its await: the session object whose disconnect is
\* awaited; 0 when the name has no session and the method returns
AwaitedSession(self, server_name) ==
    IF DictHas(self.sessions, server_name)
    THEN DictGet(self.sessions, server_name) ELSE 0

\* Faulty variant: after the await the active list is emptied
MCPClient_close_session_resume_clears_active(self, server_name, raised) ==
    IF raised THEN Raised(self, "Exception")
    ELSE IF ~DictHas(self.sessions, server_name) THEN Raised(self, "KeyError")
    ELSE Returned([self EXCEPT !.sessions = DictDel(@, server_name),
                               !.active_sessions = <<>>])

\* MCPClient.close_session after its await: del self.sessions[server_name]
\* raises KeyError when the entry went away during the await
MCPClient_close_session_resume(self, server_name, raised) ==
    IF raised THEN Raised(self, "Exception")
    ELSE IF ~DictHas(self.sessions, server_name) THEN Raised(self, "KeyError")
    ELSE Returned([self EXCEPT
             !.sessions = DictDel(@, server_name),
             !.active_sessions =
                 IF ListHas(@, server_name) THEN ListRemove(@, server_name) ELSE @])

\* MCPRouterClient.close_session after its await: the exception is logged;
\* the del of the finally block raises KeyError when the entry went away
MCPRouterClient_close_session_resume(self, server_name, raised) ==
    IF ~DictHas(self.sessions, server_name) THEN Raised(self, "KeyError")
    ELSE Returned([self EXCEPT
             !.sessions = DictDel(@, server_name),
             !.active_sessions =
                 IF ListHas(@, server_name) THEN ListRemove(@, server_name) ELSE @])

\* the finally block of MCPClient.close_all_sessions: both removals guarded
MCPClient_close_all_finally(self, server_name) ==
    [self EXCEPT
        !.sessions = IF DictHas(@, server_name) THEN DictDel(@, server_name) ELSE @,
        !.active_sessions =
            IF ListHas(@, server_name) THEN ListRemove(@, server_name) ELSE @]

\* MCPClient.close_all_sessions runs on from the head of an iteration to its
\* next await, or to its end: self.sessions[server_name] of a name that has
\* no entry raises KeyError, which except Exception adds to the errors
RECURSIVE MCPClient_close_all_next(_, _)
MCPClient_close_all_next(self, c) ==
    IF c.todo = <<>>
    THEN [self |-> self, closing |-> [c EXCEPT !.stage = "idle", !.session = 0]]
    ELSE LET server_name == Head(c.todo)
         IN  IF DictHas(self.sessions, server_name)
             THEN [self |-> self,
                   closing |-> [c EXCEPT !.stage = "awaiting",
                                         !.name = server_name,
                                         !.session = DictGet(self.sessions, server_name),
                                         !.todo = Tail(@)]]
             ELSE MCPClient_close_all_next(
                      MCPClient_close_all_finally(self, server_name),
                      [c EXCEPT !.errors = Append(@, server_name), !.todo = Tail(@)])

\* the awaited disconnect has returned or raised
MCPClient_close_all_resume(self, c, raised) ==
    MCPClient_close_all_next(
        MCPClient_close_all_finally(self, c.name),
        [c EXCEPT !.errors = IF raised THEN Append(@, c.name) ELSE @,
                  !.raised = @ \/ raised])

\* MCPRouterClient.close_all_sessions up to its next await, or to its end:
\* close_session returns at once for a name that has no entry
RECURSIVE MCPRouterClient_close_all_next(_, _)
MCPRouterClient_close_all_next(self, c) ==
    IF c.todo = <<>>
    THEN [self |-> self, closing |-> [c EXCEPT !.stage = "idle", !.session = 0]]
    ELSE LET server_name == Head(c.todo)
         IN  IF AwaitedSession(self, server_name) # 0
             THEN [self |-> self,
                   closing |-> [c EXCEPT !.stage = "awaiting",
                                         !.name = server_name,
                                         !.session = AwaitedSession(self, server_name),
                                         !.todo = Tail(@)]]
             ELSE MCPRouterClient_close_all_next(self, [c EXCEPT !.todo = Tail(@)])

\* the awaited disconnect has returned or raised: what close_session raises
\* is added to the errors
MCPRouterClient_close_all_resume(self, c, raised) ==
    LET r == MCPRouterClient_close_session_resume(self, c.name, raised)
    IN  MCPRouterClient_close_all_next(
            r.self,
            [c EXCEPT !.errors = IF r.exc # None THEN Append(@, c.name) ELSE @,
                      !.raised = @ \/ raised])

(***************************************************************************)
(* add_server / remove_server                                              *)
(***************************************************************************)
MCPClient_add_server(self, server_name, server_config) ==
    IF server_name \in DOMAIN self.mcpServers
    THEN Raised(self, "ValueError")
    ELSE Returned([self EXCEPT !.mcpServers =
             [n \in DOMAIN @ \cup {server_name} |->
                 IF n = server_name THEN server_config ELSE @[n]]])

MCPRouterClient_add_server(self, name, server_config) ==
    Returned([self EXCEPT !.mcpServers =
        [n \in DOMAIN @ \cup {name} |-> IF n = name THEN server_config ELSE @[n]]])

\* Faulty variant: the open session entry goes with the descriptor
MCPClient_remove_server_drops_session(self, server_name) ==
    IF server_name \notin DOMAIN self.mcpServers
    THEN Raised(self, "ValueError")
    ELSE Returned([self EXCEPT
             !.sessions = IF DictHas(@, server_name) THEN DictDel(@, server_name) ELSE @,
             !.active_sessions =
                 IF ListHas(@, server_name) THEN ListRemove(@, server_name) ELSE @,
             !.mcpServers = [n \in DOMAIN @ \ {server_name} |-> @[n]]])

MCPClient_remove_server(self, server_name) ==
    IF server_name \notin DOMAIN self.mcpServers
    THEN Raised(self, "ValueError")
    ELSE Returned([self EXCEPT
             !.active_sessions =
                 IF ListHas(@, server_name) THEN ListRemove(@, server_name) ELSE @,
             !.mcpServers = [n \in DOMAIN @ \ {server_name} |-> @[n]]])

MCPRouterClient_remove_server(self, name) ==
    IF name \in DOMAIN self.mcpServers
    THEN Returned([self EXCEPT
             !.mcpServers = [n \in DOMAIN @ \ {name} |-> @[n]],
             !.active_sessions =
                 IF ListHas(@, name) THEN ListRemove(@, name) ELSE @])
    ELSE Returned(self)

(***************************************************************************)
(* The router's HTTP surface as the clients see it.  A request ends in a   *)
(* response (status and JSON body), in an aiohttp.ClientError, or in an    *)
(* exception that is no ClientError (the total timeout's TimeoutError).    *)
(***************************************************************************)
ResultEntries == [name : Ids \cup {None}, success : BOOLEAN]
ResultLists == UNION {[1..n -> ResultEntries] : n \in 0..MaxResults}
ServerInfos == [id : Ids, status : {"online", "offline"}]
Listings == UNION {[1..n -> ServerInfos] : n \in 0..MaxListed}

HttpError(k) ==
    [kind |-> k, status |-> 0, hasResults |-> FALSE, results |-> <<>>,
     success |-> FALSE, listing |-> <<>>]
\* "JSONDecodeError": a 200 response whose body response.json() cannot decode
HttpErrors ==
    {HttpError("ClientError"), HttpError("TimeoutError"), HttpError("JSONDecodeError")}
\* what `except aiohttp.ClientError` does not catch
Propagates(reply) == reply.kind \in {"TimeoutError", "JSONDecodeError"}
HttpResponse(status) == [HttpError("response") EXCEPT !.status = status]

\* POST /api/servers
RegisterReplies ==
    {[HttpResponse(st) EXCEPT !.hasResults = TRUE, !.results = rs] :
        st \in {200, 201}, rs \in ResultLists}
    \cup {HttpResponse(200), HttpResponse(500)} \cup HttpErrors
\* POST /api/servers/{id}/start
StartReplies ==
    {[HttpResponse(st) EXCEPT !.success = ok] : st \in {200, 500}, ok \in BOOLEAN}
    \cup HttpErrors
\* GET /api/servers
ListReplies ==
    {[HttpResponse(200) EXCEPT !.listing = l] : l \in Listings}
    \cup {HttpResponse(500)} \cup HttpErrors

Call(op, arg, ret, listing) == [op |-> op, arg |-> arg, ret |-> ret, listing |-> listing]

\* Faulty variant: the first entry overall
FirstEntry(results, i) == IF i > Len(results) THEN 0 ELSE i

\* for server_result in result["results"]: if server_result.get("success")
RECURSIVE FirstSuccess(_, _)
FirstSuccess(results, i) ==
    IF i > Len(results) THEN 0
    ELSE IF results[i].success THEN i
    ELSE FirstSuccess(results, i + 1)

\* for server in servers: if server.get("id") == server_id
RECURSIVE FindServer(_, _, _)
FindServer(servers, server_id, i) ==
    IF i > Len(servers) THEN 0
    ELSE IF servers[i].id = server_id THEN i
    ELSE FindServer(servers, server_id, i + 1)

\* config["mcpServers"][server_name]["server_id"] = server_id
CacheServerId(self, server_name, server_id) ==
    [self EXCEPT !.mcpServers[server_name].server_id = server_id]

(***************************************************************************)
(* MCPClient.register_server_with_router (client.py)                       *)
(***************************************************************************)
\* Faulty variant: the resolved id is returned but not stored in the config
MCPClient_register_reply_no_cache(self, server_name, reply) ==
    LET i == IF reply.kind = "response" /\ reply.status \in {200, 201}
                  /\ reply.hasResults /\ Len(reply.results) > 0
             THEN FirstSuccess(reply.results, 1) ELSE 0
        server_id == IF i > 0 THEN reply.results[i].name ELSE None
        exc == IF Propagates(reply) THEN reply.kind ELSE None
    IN  [Returned(self)
         EXCEPT !.exc = exc,
                !.ret = server_id,
                !.calls = <<Call("register", server_name,
                                 IF exc # None THEN exc ELSE server_id, <<>>)>>]

\* the try block around the POST, for one reply of the router
MCPClient_register_reply(self, server_name, reply) ==
    LET i == IF reply.kind = "response" /\ reply.status \in {200, 201}
                  /\ reply.hasResults /\ Len(reply.results) > 0
             THEN FirstSuccess(reply.results, 1) ELSE 0
        server_id == IF i > 0 THEN reply.results[i].name ELSE None
        exc == IF Propagates(reply) THEN reply.kind ELSE None
    IN  [Returned(IF i > 0 THEN CacheServerId(self, server_name, server_id) ELSE self)
         EXCEPT !.exc = exc,
                !.ret = server_id,
                !.calls = <<Call("register", server_name,
                                 IF exc # None THEN exc ELSE server_id, <<>>)>>]

\* Faulty variant: a descriptor without command and args is sent to the router
MCPClient_register_server_with_router_any_descriptor(self, server_name) ==
    IF Falsy(self.router_url) THEN {Raised(self, "ValueError")}
    ELSE IF server_name \notin DOMAIN self.mcpServers THEN {Raised(self, "ValueError")}
    ELSE {MCPClient_register_reply(self, server_name, reply) : reply \in RegisterReplies}

MCPClient_register_server_with_router(self, server_name) ==
    IF Falsy(self.router_url) THEN {Raised(self, "ValueError")}
    ELSE IF server_name \notin DOMAIN self.mcpServers THEN {Raised(self, "ValueError")}
    ELSE IF ~self.mcpServers[server_name].command
    THEN \* URL-based server configurations are not supported for registration
         {Raised(self, "ValueError")}
    ELSE {MCPClient_register_reply(self, server_name, reply) : reply \in RegisterReplies}

(***************************************************************************)
(* MCPClient.start_server_in_router (client.py)                            *)
(***************************************************************************)
MCPClient_start_reply(self, server_id, reply) ==
    LET exc == IF Propagates(reply) THEN reply.kind ELSE None
        ret == IF reply.kind = "response" /\ reply.status = 200 /\ reply.success
               THEN "True" ELSE "False"
    IN  [Returned(self) EXCEPT
            !.exc = exc,
            !.ret = ret,
            !.calls = <<Call("start", server_id, IF exc # None THEN exc ELSE ret, <<>>)>>]

\* Faulty variant: the start request is sent whatever the cached server_id is
MCPClient_start_server_in_router_unchecked(self, server_name) ==
    IF Falsy(self.router_url) THEN {Raised(self, "ValueError")}
    ELSE IF server_name \notin DOMAIN self.mcpServers THEN {Raised(self, "ValueError")}
    ELSE {MCPClient_start_reply(self, self.mcpServers[server_name].server_id, reply) :
             reply \in StartReplies}

MCPClient_start_server_in_router(self, server_name) ==
    IF Falsy(self.router_url) THEN {Raised(self, "ValueError")}
    ELSE IF server_name \notin DOMAIN self.mcpServers THEN {Raised(self, "ValueError")}
    ELSE LET server_id == self.mcpServers[server_name].server_id
         IN  IF Falsy(server_id)
             THEN {[Returned(self) EXCEPT !.ret = "False"]}
             ELSE {MCPClient_start_reply(self, server_id, reply) : reply \in StartReplies}

(***************************************************************************)
(* MCPClient.get_router_servers (client.py)                                *)
(***************************************************************************)
MCPClient_list_reply(self, reply) ==
    LET exc == IF Propagates(reply) THEN reply.kind ELSE None
        listing == IF reply.kind = "response" /\ reply.status = 200
                   THEN reply.listing ELSE <<>>
    IN  [Returned(self) EXCEPT
            !.exc = exc,
            !.listing = listing,
            !.calls = <<Call("list", None, IF exc # None THEN exc ELSE None, listing)>>]

MCPClient_get_router_servers(self) ==
    IF Falsy(self.router_url) THEN {Raised(self, "ValueError")}
    ELSE {MCPClient_list_reply(self, reply) : reply \in ListReplies}

(***************************************************************************)
(* create_connector_from_config (config.py)                                *)
(***************************************************************************)
create_connector_from_config(config) ==
    IF "url" \in DOMAIN config
    THEN [exc |-> None, connector |-> [type |-> "HttpConnector", base_url |-> config.url]]
    ELSE [exc |-> "ValueError", connector |-> NoConnector]

\* The dict of a descriptor, as far as its keys matter: a descriptor without
\* command and args is URL-based
ServerUrl == "http://localhost:8000"
ServerConfig(descriptor) ==
    IF descriptor.command
    THEN [command |-> "npx", args |-> <<>>, server_id |-> descriptor.server_id]
    ELSE [url |-> ServerUrl, server_id |-> descriptor.server_id]

(***************************************************************************)
(* MCPRouterConnector (connectors/router.py)                               *)
(***************************************************************************)
\* __init__; RouterUrl carries no trailing slash for rstrip("/") to drop
MCPRouterConnector(url, server_id) ==
    [type |-> "MCPRouterConnector", router_url |-> url, server_id |-> server_id,
     mcp_endpoint |-> url \o "/mcp"]

\* What one awaited step did: its exception (or None), its return value, the
\* router calls it issued
Step(exc, ret, calls) == [exc |-> exc, ret |-> ret, calls |-> calls]
StepAfter(s1, s2) == [s2 EXCEPT !.calls = s1.calls \o @]

MCPRouterConnector_register_server(server_name, reply) ==
    LET i == IF reply.kind = "response" /\ reply.status \in {200, 201}
                  /\ reply.hasResults /\ Len(reply.results) > 0
             THEN FirstSuccess(reply.results, 1) ELSE 0
        ret == IF i > 0 THEN reply.results[i].name ELSE None
        exc == IF Propagates(reply) THEN reply.kind ELSE None
    IN  Step(exc, ret,
             <<Call("register", server_name, IF exc # None THEN exc ELSE ret, <<>>)>>)

MCPRouterConnector_start_server(server_id, reply) ==
    LET exc == IF Propagates(reply) THEN reply.kind ELSE None
        ret == IF reply.kind = "response" /\ reply.status = 200 /\ reply.success
               THEN "True" ELSE "False"
    IN  Step(exc, ret, <<Call("start", server_id, IF exc # None THEN exc ELSE ret, <<>>)>>)

\* _get_server_info: ret is "found" or None, the entry found is in `info`
MCPRouterConnector_get_server_info(server_id, reply) ==
    LET exc == IF Propagates(reply) THEN reply.kind ELSE None
        listing == IF reply.kind = "response" /\ reply.status = 200
                   THEN reply.listing ELSE <<>>
        i == FindServer(listing, server_id, 1)
    IN  [exc |-> exc,
         ret |-> IF i > 0 THEN listing[i].status ELSE None,
         calls |-> <<Call("list", None, IF exc # None THEN exc ELSE None, listing)>>]

MCPRouterConnector_get_all_servers(reply) ==
    LET exc == IF Propagates(reply) THEN reply.kind ELSE None
        listing == IF reply.kind = "response" /\ reply.status = 200
                   THEN reply.listing ELSE <<>>
    IN  [exc |-> exc, ret |-> None, listing |-> listing,
         calls |-> <<Call("list", None, IF exc # None THEN exc ELSE None, listing)>>]

MCPRouterConnector_ensure_server_running(server_id) ==
    UNION {IF info.exc # None THEN {info}
           ELSE IF info.ret # None /\ info.ret # "online"
           THEN \* await self._start_server(server_id): the result is dropped
                {StepAfter(info, [MCPRouterConnector_start_server(server_id, reply)
                                    EXCEPT !.ret = None]) : reply \in StartReplies}
           ELSE IF info.ret # None THEN {info}
           ELSE {[info EXCEPT !.exc = "RuntimeError"]}
           : info \in {MCPRouterConnector_get_server_info(server_id, reply) :
                          reply \in ListReplies}}

(***************************************************************************)
(* The connector object (connectors/router.py, BaseConnector)              *)
(*                                                                         *)
(* connected is _connected; connection_manager and client are the handles  *)
(* (0: None, n: the n-th object constructed); connects, streams, clients   *)
(* and cleanups count the connect() calls, the connection managers         *)
(* started, the client sessions constructed and the cleanups run.          *)
(***************************************************************************)
ConnectorObject(server_id) ==
    [server_id |-> server_id, connected |-> FALSE,
     connection_manager |-> 0, client |-> 0,
     connects |-> 0, streams |-> 0, clients |-> 0, cleanups |-> 0]

\* BaseConnector._cleanup_resources: the client session is exited, the
\* connection manager stopped, both handles cleared; failures are only logged
BaseConnector_cleanup_resources(c) ==
    [c EXCEPT !.client = 0, !.connection_manager = 0, !.cleanups = @ + 1]

\* BaseConnector.disconnect: nothing unless connected; never raises
BaseConnector_disconnect(c) ==
    IF ~c.connected THEN c
    ELSE [BaseConnector_cleanup_resources(c) EXCEPT !.connected = FALSE]

\* What connect() did: the object it leaves, and the step it amounts to
Connected(c, step) == [self |-> c, exc |-> step.exc, ret |-> step.ret, calls |-> step.calls]

\* Faulty variant: the handler re-raises without cleaning up
MCPRouterConnector_connect_except_no_cleanup(c, step, exc) ==
    Connected(c, [step EXCEPT !.exc = exc, !.ret = None])

\* except Exception: log, await self._cleanup_resources(), raise
MCPRouterConnector_connect_except(c, step, exc) ==
    Connected(BaseConnector_cleanup_resources(c), [step EXCEPT !.exc = exc, !.ret = None])

\* the stream's start and the client session's __aenter__ succeed or raise
ConnectFailures == {None, "stream", "enter"}

\* the try block of connect(), after the ensure-running step e
MCPRouterConnector_connect_try(c, e, f) ==
    LET managed == [c EXCEPT !.connection_manager = c.streams + 1, !.streams = @ + 1]
        entered == [managed EXCEPT !.client = c.clients + 1, !.clients = @ + 1]
    IN  IF e.exc # None THEN MCPRouterConnector_connect_except(c, e, e.exc)
        ELSE IF f = "stream" THEN MCPRouterConnector_connect_except(managed, e, "Exception")
        ELSE IF f = "enter" THEN MCPRouterConnector_connect_except(entered, e, "Exception")
        ELSE Connected([entered EXCEPT !.connected = TRUE], [e EXCEPT !.ret = "connected"])

\* Faulty variant: the _connected flag is not looked at
MCPRouterConnector_connect_on_again(c) ==
    LET ensured == IF Truthy(c.server_id)
                   THEN MCPRouterConnector_ensure_server_running(c.server_id)
                   ELSE {Step(None, None, <<>>)}
    IN  {MCPRouterConnector_connect_try(c, e, f) : e \in ensured, f \in ConnectFailures}

\* connect() on the connector object c
MCPRouterConnector_connect_on(c) ==
    IF c.connected THEN {Connected(c, Step(None, None, <<>>))}
    ELSE LET ensured == IF Truthy(c.server_id)
                        THEN MCPRouterConnector_ensure_server_running(c.server_id)
                        ELSE {Step(None, None, <<>>)}
         IN  {MCPRouterConnector_connect_try(c, e, f) : e \in ensured, f \in ConnectFailures}

\* connect() on a connector just built from its configuration
MCPRouterConnector_connect(connector) ==
    {Step(o.exc, o.ret, o.calls) :
        o \in MCPRouterConnector_connect_on(ConnectorObject(connector.server_id))}

(***************************************************************************)
(* MCPSession.initialize: connects the connector, then the handshake       *)
(***************************************************************************)
MCPSession_initialize(connector) ==
    LET connected == IF connector.type = "MCPRouterConnector"
                     THEN MCPRouterConnector_connect(connector)
                     ELSE {Step(None, "connected", <<>>), Step("Exception", None, <<>>)}
    IN  UNION {IF c.exc # None THEN {c}
               ELSE {c, [c EXCEPT !.exc = "Exception"]}
               : c \in connected}

(***************************************************************************)
(* MCPClient.create_session (client.py)                                    *)
(***************************************************************************)
\* r2 ran after r1 within one invocation: the router calls add up
After(r1, r2) == [r2 EXCEPT !.calls = r1.calls \o @]

\* Faulty variant: the router URL is not checked
MCPClient_create_session_check_no_url(self, server_name) ==
    IF DOMAIN self.mcpServers = {} THEN "ValueError"
    ELSE IF server_name \notin DOMAIN self.mcpServers THEN "ValueError"
    ELSE None

\* the three checks that precede everything else
MCPClient_create_session_check(self, server_name) ==
    IF DOMAIN self.mcpServers = {} THEN "ValueError"
    ELSE IF server_name \notin DOMAIN self.mcpServers THEN "ValueError"
    ELSE IF Falsy(self.router_url) THEN "ValueError"
    ELSE None

\* Faulty variant: the server is registered but never started
MCPClient_register_and_start_no_start(self, server_name) ==
    {[r EXCEPT !.server_id = r.ret] :
        r \in MCPClient_register_server_with_router(self, server_name)}

\* server_id = await register(...); if server_id: await start(...)
MCPClient_register_and_start(self, server_name) ==
    UNION {IF r.exc # None \/ Falsy(r.ret)
           THEN {[r EXCEPT !.server_id = r.ret]}
           ELSE {[After(r, s) EXCEPT !.server_id = r.ret] :
                    s \in MCPClient_start_server_in_router(r.self, server_name)}
           : r \in MCPClient_register_server_with_router(self, server_name)}

\* Faulty variant: a listed server is started whatever its status
MCPClient_reconcile_always_start(self, server_name, server_id) ==
    UNION {IF l.exc # None THEN {l}
           ELSE IF FindServer(l.listing, server_id, 1) > 0
           THEN {[After(l, s) EXCEPT !.server_id = server_id] :
                    s \in MCPClient_start_server_in_router(self, server_name)}
           ELSE {[After(l, r) EXCEPT !.server_id =
                     IF Truthy(r.server_id) THEN r.server_id ELSE server_id] :
                    r \in MCPClient_register_and_start(self, server_name)}
           : l \in MCPClient_get_router_servers(self)}

\* the else branch: a cached server_id is checked against the router's list
MCPClient_reconcile(self, server_name, server_id) ==
    LET \* get_router_servers leaves self alone: what follows it starts from self
        started == MCPClient_start_server_in_router(self, server_name)
        registered == MCPClient_register_and_start(self, server_name)
    IN  UNION {IF l.exc # None THEN {l}
               ELSE LET i == FindServer(l.listing, server_id, 1)
                    IN  IF i > 0
                        THEN IF l.listing[i].status # "online"
                             THEN {[After(l, s) EXCEPT !.server_id = server_id] :
                                      s \in started}
                             ELSE {[l EXCEPT !.server_id = server_id]}
                        ELSE \* new_id = register(...); if new_id: start, server_id = new_id
                             {[After(l, r) EXCEPT !.server_id =
                                   IF Truthy(r.server_id) THEN r.server_id ELSE server_id] :
                                 r \in registered}
               : l \in MCPClient_get_router_servers(self)}

\* if auto_register: ...
\* Faulty variant: the auto_register argument is not looked at
MCPClient_auto_register_always(self, server_name, auto_register) ==
    LET server_id == self.mcpServers[server_name].server_id
    IN  IF Falsy(server_id)
        THEN MCPClient_register_and_start(self, server_name)
        ELSE MCPClient_reconcile(self, server_name, server_id)

MCPClient_auto_register(self, server_name, auto_register) ==
    IF ~auto_register THEN {Returned(self)}
    ELSE LET server_id == self.mcpServers[server_name].server_id
         IN  IF Falsy(server_id)
             THEN MCPClient_register_and_start(self, server_name)
             ELSE MCPClient_reconcile(self, server_name, server_id)

\* the router_connector_config handed to create_connector_from_config
MCPClient_connector_config(self, server_id) ==
    [url |-> self.router_url \o "/mcp"]

\* Faulty variant: the name is appended whether or not it is active already
StoreSession_always_appends(self, server_name, session) ==
    [self EXCEPT
        !.sessions = DictSet(@, server_name, session),
        !.active_sessions = Append(@, server_name)]

\* self.sessions[server_name] = session; append to active_sessions if absent
StoreSession(self, server_name, session) ==
    [self EXCEPT
        !.sessions = DictSet(@, server_name, session),
        !.active_sessions = IF ListHas(@, server_name) THEN @ ELSE Append(@, server_name)]

\* Faulty variant: the handshake is awaited whatever auto_initialize says
OpenSession_always_initializes(r, server_name, auto_initialize, session, connector) ==
    LET built == [r EXCEPT !.connector = connector, !.session = session]
        stored == [built EXCEPT !.self = StoreSession(@, server_name, session)]
    IN  {IF i.exc # None
         THEN [built EXCEPT !.exc = i.exc, !.calls = @ \o i.calls, !.initialized = 1]
         ELSE [stored EXCEPT !.calls = @ \o i.calls, !.initialized = 1]
         : i \in MCPSession_initialize(connector)}

\* Faulty variant: the session is stored before the handshake is awaited
OpenSession_stores_first(r, server_name, auto_initialize, session, connector) ==
    LET built == [r EXCEPT !.connector = connector, !.session = session]
        stored == [built EXCEPT !.self = StoreSession(@, server_name, session)]
    IN  IF ~auto_initialize THEN {stored}
        ELSE {IF i.exc # None
              THEN [stored EXCEPT !.exc = i.exc, !.calls = @ \o i.calls, !.initialized = 1]
              ELSE [stored EXCEPT !.calls = @ \o i.calls, !.initialized = 1]
              : i \in MCPSession_initialize(connector)}

\* Faulty variant: a handshake that raises takes the name's entry with it
OpenSession_failure_drops_entry(r, server_name, auto_initialize, session, connector) ==
    LET built == [r EXCEPT !.connector = connector, !.session = session]
        stored == [built EXCEPT !.self = StoreSession(@, server_name, session)]
        dropped == [built EXCEPT
                       !.self.sessions = DictDel(@, server_name),
                       !.self.active_sessions =
                           IF ListHas(@, server_name)
                           THEN ListRemove(@, server_name) ELSE @]
    IN  IF ~auto_initialize THEN {stored}
        ELSE {IF i.exc # None
              THEN [dropped EXCEPT !.exc = i.exc, !.calls = @ \o i.calls, !.initialized = 1]
              ELSE [stored EXCEPT !.calls = @ \o i.calls, !.initialized = 1]
              : i \in MCPSession_initialize(connector)}

\* session = MCPSession(connector); if auto_initialize: initialize; store
OpenSession(r, server_name, auto_initialize, session, connector) ==
    LET built == [r EXCEPT !.connector = connector, !.session = session]
        stored == [built EXCEPT !.self = StoreSession(@, server_name, session)]
    IN  IF ~auto_initialize THEN {stored}
        ELSE {IF i.exc # None
              THEN [built EXCEPT !.exc = i.exc, !.calls = @ \o i.calls, !.initialized = 1]
              ELSE [stored EXCEPT !.calls = @ \o i.calls, !.initialized = 1]
              : i \in MCPSession_initialize(connector)}

\* connector, MCPSession(connector), initialize, store: after the reconciliation r
MCPClient_open_session(r, server_name, auto_initialize, session) ==
    IF r.exc # None THEN {r}
    ELSE LET c == create_connector_from_config(
                      MCPClient_connector_config(r.self, r.server_id))
         IN  IF c.exc # None THEN {[r EXCEPT !.exc = c.exc]}
             ELSE OpenSession(r, server_name, auto_initialize, session, c.connector)

MCPClient_create_session(self, server_name, auto_initialize, auto_register, session) ==
    IF MCPClient_create_session_check(self, server_name) # None
    THEN {Raised(self, MCPClient_create_session_check(self, server_name))}
    ELSE UNION {MCPClient_open_session(r, server_name, auto_initialize, session) :
                   r \in MCPClient_auto_register(self, server_name, auto_register)}

(***************************************************************************)
(* MCPRouterClient: register, start, create_session (router_client.py)     *)
(***************************************************************************)
\* self.router_connector is built iff the config names a router_url
HasRouterConnector(self) == self.router_url # None

\* Faulty variant: whatever came back is stored in the config
MCPRouterClient_register_reply_stores_none(self, server_name, reply) ==
    LET g == MCPRouterConnector_register_server(server_name, reply)
    IN  [Returned(IF g.exc = None
                  THEN CacheServerId(self, server_name, g.ret) ELSE self)
         EXCEPT !.exc = g.exc, !.calls = g.calls,
                !.ret = IF Truthy(g.ret) THEN g.ret ELSE None]

\* server_id = await self.router_connector.register_server(...); if server_id: cache
MCPRouterClient_register_reply(self, server_name, reply) ==
    LET g == MCPRouterConnector_register_server(server_name, reply)
    IN  [Returned(IF g.exc = None /\ Truthy(g.ret)
                  THEN CacheServerId(self, server_name, g.ret) ELSE self)
         EXCEPT !.exc = g.exc, !.calls = g.calls,
                !.ret = IF Truthy(g.ret) THEN g.ret ELSE None]

\* Faulty variant: a cached server_id is returned without asking the router
MCPRouterClient_register_server_with_router_cached(self, server_name) ==
    IF ~HasRouterConnector(self) THEN {Raised(self, "ValueError")}
    ELSE IF server_name \notin DOMAIN self.mcpServers THEN {Raised(self, "ValueError")}
    ELSE IF Truthy(self.mcpServers[server_name].server_id)
    THEN {[Returned(self) EXCEPT !.ret = self.mcpServers[server_name].server_id]}
    ELSE {MCPRouterClient_register_reply(self, server_name, reply) :
             reply \in RegisterReplies}

MCPRouterClient_register_server_with_router(self, server_name) ==
    IF ~HasRouterConnector(self) THEN {Raised(self, "ValueError")}
    ELSE IF server_name \notin DOMAIN self.mcpServers THEN {Raised(self, "ValueError")}
    ELSE {MCPRouterClient_register_reply(self, server_name, reply) :
             reply \in RegisterReplies}

\* return await self.router_connector._start_server(server_id)
MCPRouterClient_start(r, server_id) ==
    {LET g == MCPRouterConnector_start_server(server_id, reply)
     IN  [r EXCEPT !.exc = g.exc, !.ret = g.ret, !.calls = @ \o g.calls]
     : reply \in StartReplies}

MCPRouterClient_start_server_in_router(self, server_name) ==
    IF ~HasRouterConnector(self) THEN {Raised(self, "ValueError")}
    ELSE IF server_name \notin DOMAIN self.mcpServers THEN {Raised(self, "ValueError")}
    ELSE LET server_id == self.mcpServers[server_name].server_id
         IN  IF Falsy(server_id)
             THEN \* not registered yet: register it first
                  UNION {IF r.exc # None THEN {r}
                         ELSE IF Falsy(r.ret) THEN {[r EXCEPT !.ret = "False"]}
                         ELSE MCPRouterClient_start(r, r.ret)
                         : r \in MCPRouterClient_register_server_with_router(self, server_name)}
             ELSE MCPRouterClient_start(Returned(self), server_id)

MCPRouterClient_get_router_servers(self) ==
    IF ~HasRouterConnector(self) THEN {Raised(self, "ValueError")}
    ELSE {LET g == MCPRouterConnector_get_all_servers(reply)
          IN  [Returned(self) EXCEPT !.exc = g.exc, !.listing = g.listing,
                                     !.calls = g.calls]
          : reply \in ListReplies}

\* server_id = await register(...); if server_id: await start(...)
MCPRouterClient_register_and_start(self, server_name) ==
    UNION {IF r.exc # None \/ Falsy(r.ret)
           THEN {[r EXCEPT !.server_id = r.ret]}
           ELSE {[After(r, s) EXCEPT !.server_id = r.ret] :
                    s \in MCPRouterClient_start_server_in_router(r.self, server_name)}
           : r \in MCPRouterClient_register_server_with_router(self, server_name)}

\* the branch taken when self.router_connector is set, up to the connector
MCPRouterClient_resolve(self, server_name, auto_register) ==
    LET server_id == self.mcpServers[server_name].server_id
    IN  IF auto_register /\ Falsy(server_id)
        THEN MCPRouterClient_register_and_start(self, server_name)
        ELSE {[Returned(self) EXCEPT !.server_id = server_id]}

\* Faulty variant: the connector is built without the server id
MCPRouterClient_connector_no_id(r, server_name) ==
    IF HasRouterConnector(r.self) /\ Truthy(r.self.router_url)
    THEN [exc |-> None, connector |-> MCPRouterConnector(r.self.router_url, None)]
    ELSE create_connector_from_config(ServerConfig(r.self.mcpServers[server_name]))

MCPRouterClient_connector(r, server_name) ==
    IF HasRouterConnector(r.self) /\ Truthy(r.self.router_url)
    THEN [exc |-> None, connector |-> MCPRouterConnector(r.self.router_url, r.server_id)]
    ELSE create_connector_from_config(ServerConfig(r.self.mcpServers[server_name]))

MCPRouterClient_open_session(r, server_name, auto_initialize, session) ==
    IF r.exc # None THEN {r}
    ELSE LET c == MCPRouterClient_connector(r, server_name)
         IN  IF c.exc # None THEN {[r EXCEPT !.exc = c.exc]}
             ELSE OpenSession(r, server_name, auto_initialize, session, c.connector)

MCPRouterClient_create_session(self, server_name, auto_initialize, auto_register, session) ==
    IF DOMAIN self.mcpServers = {} THEN {Raised(self, "ValueError")}
    ELSE IF server_name \notin DOMAIN self.mcpServers THEN {Raised(self, "ValueError")}
    ELSE UNION {MCPRouterClient_open_session(r, server_name, auto_initialize, session) :
                   r \in IF HasRouterConnector(self)
                         THEN MCPRouterClient_resolve(self, server_name, auto_register)
                         ELSE {Returned(self)}}

(***************************************************************************)
(* The state machine.                                                      *)
(*                                                                         *)
(* Two specifications share the actions.  Spec is the session lifecycle of *)
(* a client whose caller registers nothing (auto_register=False) over two  *)
(* server names.  SpecRegistration is a client with one configured name    *)
(* whose caller lets create_session register, start and list against every *)
(* answer the router can give.                                             *)
(***************************************************************************)
SessionObjects == 1..MaxSessionObjects
ConfigsOver(names, descriptors) == UNION {[S -> descriptors] : S \in SUBSET names}

\* a command-based descriptor that was never registered
FreshDescriptor == [command |-> TRUE, server_id |-> None]

\* `last` before any method was invoked
Idle ==
    [op |-> "init", name |-> None, auto_initialize |-> FALSE,
     auto_register |-> FALSE, exc |-> None, calls |-> <<>>,
     attempted |-> <<>>, failed |-> <<>>, errors |-> <<>>,
     connector |-> NoConnector,
     server_id |-> None, session |-> 0, initialized |-> 0,
     answer |-> NoAnswer]

\* no create_session is in flight
NoInvocation ==
    [stage |-> "idle", name |-> None, auto_initialize |-> FALSE,
     auto_register |-> FALSE, calls |-> <<>>, server_id |-> None]

\* no close_session or close_all_sessions is in flight and none has run
NoClosing == Closing("none", None)

InitWith(configs) ==
    /\ kind \in {"MCPClient", "MCPRouterClient"}
    /\ router_url \in {RouterUrl, None}
    /\ mcpRouter = NoRouterConfig
    /\ router_headers = NoHeaders
    /\ mcpServers \in configs
    /\ sessions = <<>>
    /\ active_sessions = <<>>
    /\ next_session = 1
    /\ disconnect_calls = [s \in SessionObjects |-> 0]
    /\ conn = ConnectorObject(None)
    /\ pending = NoInvocation
    /\ closing = NoClosing
    /\ last = Idle

\* The client is left as the result r says, and r is remembered in `last`
Installed(op, name, auto_initialize, auto_register, r) ==
    /\ \A s \in Range(r.attempted) : disconnect_calls[s] < MaxDisconnects
    /\ r.session # 0 => next_session <= MaxSessionObjects
    /\ mcpServers' = r.self.mcpServers
    /\ sessions' = r.self.sessions
    /\ active_sessions' = r.self.active_sessions
    /\ next_session' = IF r.session # 0 THEN next_session + 1 ELSE next_session
    /\ disconnect_calls' =
           [s \in SessionObjects |-> disconnect_calls[s] + Count(r.attempted, s)]
    /\ last' = [op |-> op, name |-> name, auto_initialize |-> auto_initialize,
                auto_register |-> auto_register, exc |-> r.exc, calls |-> r.calls,
                attempted |-> r.attempted, failed |-> r.failed, errors |-> r.errors,
                connector |-> r.connector, server_id |-> r.server_id,
                session |-> r.session, initialized |-> r.initialized,
                answer |-> r.answer]
    /\ UNCHANGED <<kind, router_url, mcpRouter, router_headers, conn>>

\* The invocation, the only one in flight or create_session's, ends with r
Install(op, name, auto_initialize, auto_register, r) ==
    /\ Installed(op, name, auto_initialize, auto_register, r)
    /\ pending' = NoInvocation
    /\ UNCHANGED closing

add_server(name, server_config) ==
    Install("add_server", name, FALSE, FALSE,
            IF kind = "MCPClient"
            THEN MCPClient_add_server(Self, name, server_config)
            ELSE MCPRouterClient_add_server(Self, name, server_config))

remove_server(name) ==
    Install("remove_server", name, FALSE, FALSE,
            IF kind = "MCPClient"
            THEN MCPClient_remove_server(Self, name)
            ELSE MCPRouterClient_remove_server(Self, name))

create_session(name, auto_initialize, auto_register) ==
    \E r \in IF kind = "MCPClient"
             THEN MCPClient_create_session(Self, name, auto_initialize,
                                           auto_register, next_session)
             ELSE MCPRouterClient_create_session(Self, name, auto_initialize,
                                                 auto_register, next_session) :
        Install("create_session", name, auto_initialize, auto_register, r)

\* the environment decides whether the disconnect of name's session raises
close_session(name, raises) ==
    LET failing == IF raises /\ DictHas(sessions, name)
                   THEN {DictGet(sessions, name)} ELSE {}
    IN  Install("close_session", name, FALSE, FALSE,
                IF kind = "MCPClient"
                THEN MCPClient_close_session(Self, name, failing)
                ELSE MCPRouterClient_close_session(Self, name, failing))

close_all_sessions(failing) ==
    Install("close_all_sessions", None, FALSE, FALSE,
            IF kind = "MCPClient"
            THEN MCPClient_close_all_sessions(Self, failing)
            ELSE MCPRouterClient_close_all_sessions(Self, failing))

\* r, with the router's reply to its request and what the method gave back
Answered(r, reply) ==
    [r EXCEPT !.answer = [reply |-> reply, ret |-> r.ret, listing |-> r.listing]]
\* r, a result that ended without the request being sent
Unanswered(r) == [r EXCEPT !.answer = [NoAnswer EXCEPT !.ret = r.ret]]
LastCall(r) ==
    IF r.calls = <<>> THEN Call("none", None, None, <<>>) ELSE r.calls[Len(r.calls)]
\* the call that the client's start request records for the router's reply
StartCall(server_id, reply) ==
    IF kind = "MCPClient"
    THEN MCPClient_start_reply(Self, server_id, reply).calls[1]
    ELSE MCPRouterConnector_start_server(server_id, reply).calls[1]
\* the call that the client's list request records for the router's reply
ListCall(reply) ==
    IF kind = "MCPClient"
    THEN MCPClient_list_reply(Self, reply).calls[1]
    ELSE MCPRouterConnector_get_all_servers(reply).calls[1]

\* await client.register_server_with_router(name), the router replying `reply`
register_server_with_router(name) ==
    \E r \in IF kind = "MCPClient"
             THEN MCPClient_register_server_with_router(Self, name)
             ELSE MCPRouterClient_register_server_with_router(Self, name) :
        IF LastCall(r).op = "register"
        THEN \E reply \in RegisterReplies :
                /\ r = IF kind = "MCPClient"
                       THEN MCPClient_register_reply(Self, name, reply)
                       ELSE MCPRouterClient_register_reply(Self, name, reply)
                /\ Install("register_server_with_router", name, FALSE, FALSE,
                           Answered(r, reply))
        ELSE Install("register_server_with_router", name, FALSE, FALSE, Unanswered(r))

\* await client.start_server_in_router(name), the router replying `reply` to
\* the start request
start_server_in_router(name) ==
    \E r \in IF kind = "MCPClient"
             THEN MCPClient_start_server_in_router(Self, name)
             ELSE MCPRouterClient_start_server_in_router(Self, name) :
        IF LastCall(r).op = "start"
        THEN \E reply \in StartReplies :
                /\ LastCall(r) = StartCall(LastCall(r).arg, reply)
                /\ Install("start_server_in_router", name, FALSE, FALSE,
                           Answered(r, reply))
        ELSE Install("start_server_in_router", name, FALSE, FALSE, Unanswered(r))

\* await client.get_router_servers(), the router replying `reply`
get_router_servers ==
    \E r \in IF kind = "MCPClient"
             THEN MCPClient_get_router_servers(Self)
             ELSE MCPRouterClient_get_router_servers(Self) :
        IF LastCall(r).op = "list"
        THEN \E reply \in ListReplies :
                /\ LastCall(r) = ListCall(reply)
                /\ Install("get_router_servers", None, FALSE, FALSE, Answered(r, reply))
        ELSE Install("get_router_servers", None, FALSE, FALSE, Unanswered(r))

(***************************************************************************)
(* create_session await by await.  The invocation in flight is `pending`:  *)
(* after the checks it is registering (the register call or, in MCPClient  *)
(* with a cached server_id, the reconciliation against the router's list), *)
(* then starting, then connecting (connector, session, handshake, store).  *)
(***************************************************************************)
\* what the invocation in flight has done so far
InFlight ==
    [Returned(Self) EXCEPT !.calls = pending.calls, !.server_id = pending.server_id]

\* the checks at the head of create_session
create_session_check(name) ==
    IF kind = "MCPClient" THEN MCPClient_create_session_check(Self, name)
    ELSE IF DOMAIN mcpServers = {} \/ name \notin DOMAIN mcpServers THEN "ValueError"
    ELSE None

\* the phase that follows the checks
FirstPhase(name, auto_register) ==
    IF kind = "MCPClient"
    THEN IF auto_register THEN "registering" ELSE "connecting"
    ELSE IF HasRouterConnector(Self) /\ auto_register
               /\ Falsy(mcpServers[name].server_id)
         THEN "registering" ELSE "connecting"

\* the invocation goes on as p; the session map is not touched
Proceed(p, servers) ==
    /\ pending' = p
    /\ mcpServers' = servers
    /\ UNCHANGED <<kind, router_url, mcpRouter, router_headers,
                   sessions, active_sessions, next_session,
                   disconnect_calls, conn, closing, last>>

\* the invocation ends with the result r
Finish(r) ==
    Install("create_session", pending.name, pending.auto_initialize,
            pending.auto_register, r)

\* create_session(name, auto_initialize, auto_register) is called
create_session_begin(name, auto_initialize, auto_register) ==
    /\ pending.stage = "idle"
    /\ IF create_session_check(name) # None
       THEN Install("create_session", name, auto_initialize, auto_register,
                    Raised(Self, create_session_check(name)))
       ELSE /\ next_session <= MaxSessionObjects
            /\ Proceed([stage |-> FirstPhase(name, auto_register), name |-> name,
                        auto_initialize |-> auto_initialize,
                        auto_register |-> auto_register, calls |-> <<>>,
                        server_id |-> IF kind = "MCPRouterClient"
                                         /\ HasRouterConnector(Self)
                                         /\ FirstPhase(name, auto_register) = "connecting"
                                      THEN mcpServers[name].server_id ELSE None],
                       mcpServers)

\* the registration's await returns
create_session_register ==
    /\ pending.stage = "registering"
    /\ LET name == pending.name
           cached == mcpServers[name].server_id
           reconciles == kind = "MCPClient" /\ Truthy(cached)
       IN  \E r \in IF reconciles THEN MCPClient_reconcile(Self, name, cached)
                    ELSE IF kind = "MCPClient"
                    THEN MCPClient_register_server_with_router(Self, name)
                    ELSE MCPRouterClient_register_server_with_router(Self, name) :
              LET server_id == IF reconciles THEN r.server_id ELSE r.ret
              IN  IF r.exc # None
                  THEN Finish(After(InFlight, [r EXCEPT !.server_id = server_id]))
                  ELSE Proceed([pending EXCEPT
                                   !.stage = IF ~reconciles /\ Truthy(server_id)
                                             THEN "starting" ELSE "connecting",
                                   !.calls = @ \o r.calls,
                                   !.server_id = server_id],
                               r.self.mcpServers)

\* the start's await returns
create_session_start ==
    /\ pending.stage = "starting"
    /\ \E r \in IF kind = "MCPClient"
                THEN MCPClient_start_server_in_router(Self, pending.name)
                ELSE MCPRouterClient_start_server_in_router(Self, pending.name) :
          IF r.exc # None
          THEN Finish(After(InFlight, [r EXCEPT !.server_id = pending.server_id]))
          ELSE Proceed([pending EXCEPT !.stage = "connecting", !.calls = @ \o r.calls],
                       r.self.mcpServers)

\* the connector and the session are built, the handshake's await returns,
\* the session is stored
create_session_connect ==
    /\ pending.stage = "connecting"
    /\ \E r \in IF kind = "MCPClient"
                THEN MCPClient_open_session(InFlight, pending.name,
                                            pending.auto_initialize, next_session)
                ELSE MCPRouterClient_open_session(InFlight, pending.name,
                                                  pending.auto_initialize, next_session) :
          Finish(r)

(***************************************************************************)
(* close_session and close_all_sessions in flight beside other tasks.      *)
(***************************************************************************)
\* what close_all_sessions raises at its end
close_all_exc(c) ==
    IF kind = "MCPClient"
    THEN MCPClient_close_all_raise([Returned(Self) EXCEPT !.errors = c.errors]).exc
    ELSE None

\* the invocation goes on as c with the client as self; disconnect is called
\* on the session it comes to await; when it has ended, with exc, it is
\* remembered in `last`
CloseStep(self, c, exc) ==
    /\ c.stage = "awaiting" => disconnect_calls[c.session] < MaxDisconnects
    /\ sessions' = self.sessions
    /\ active_sessions' = self.active_sessions
    /\ disconnect_calls' =
           IF c.stage = "awaiting"
           THEN [disconnect_calls EXCEPT ![c.session] = @ + 1] ELSE disconnect_calls
    /\ closing' = c
    /\ last' = IF c.stage = "idle"
               THEN [Idle EXCEPT !.op = c.op, !.exc = exc, !.errors = c.errors,
                                 !.name = IF c.op = "close_session" THEN c.name ELSE None]
               ELSE last
    /\ UNCHANGED <<kind, router_url, mcpRouter, router_headers, mcpServers,
                   next_session, conn, pending>>

\* what an invocation called now finds
Called(op, name) ==
    [Closing(op, name) EXCEPT
        !.before = [sessions |-> sessions, active_sessions |-> active_sessions],
        !.built = next_session,
        !.beside = IF pending.stage # "idle" THEN pending.name ELSE None]

\* close_session(name) is called and comes to its await, or returns
close_session_begin(name) ==
    /\ closing.stage = "idle"
    /\ CloseStep(Self,
                 IF AwaitedSession(Self, name) # 0
                 THEN [Called("close_session", name) EXCEPT
                          !.stage = "awaiting", !.session = AwaitedSession(Self, name)]
                 ELSE Called("close_session", name),
                 None)

\* the disconnect awaited by close_session returns or raises
close_session_resume(raises) ==
    /\ closing.op = "close_session" /\ closing.stage = "awaiting"
    /\ LET r == IF kind = "MCPClient"
                THEN MCPClient_close_session_resume(Self, closing.name, raises)
                ELSE MCPRouterClient_close_session_resume(Self, closing.name, raises)
       IN  CloseStep(r.self,
                     [closing EXCEPT
                         !.stage = "idle", !.raised = raises,
                         !.beside = IF pending.stage # "idle" THEN pending.name ELSE @],
                     r.exc)

\* close_all_sessions() is called and comes to its first await, or returns
close_all_sessions_begin ==
    /\ closing.stage = "idle"
    /\ LET c == [Called("close_all_sessions", None) EXCEPT
                    !.snapshot = DictKeys(sessions), !.todo = DictKeys(sessions)]
           n == IF kind = "MCPClient" THEN MCPClient_close_all_next(Self, c)
                ELSE MCPRouterClient_close_all_next(Self, c)
       IN  CloseStep(n.self, n.closing, close_all_exc(n.closing))

\* the disconnect awaited by close_all_sessions returns or raises, and the
\* loop runs on to its next await or to its end
close_all_sessions_resume(raises) ==
    /\ closing.op = "close_all_sessions" /\ closing.stage = "awaiting"
    /\ LET n == IF kind = "MCPClient"
                THEN MCPClient_close_all_resume(Self, closing, raises)
                ELSE MCPRouterClient_close_all_resume(Self, closing, raises)
       IN  CloseStep(n.self, n.closing, close_all_exc(n.closing))

\* while close_all_sessions awaits, another task's close_session(name) runs
\* from its call to its return
close_session_meanwhile(name, raises) ==
    /\ closing.op = "close_all_sessions" /\ closing.stage = "awaiting"
    /\ LET failing == IF raises /\ DictHas(sessions, name)
                      THEN {DictGet(sessions, name)} ELSE {}
       IN  Installed("close_session", name, FALSE, FALSE,
                     IF kind = "MCPClient"
                     THEN MCPClient_close_session(Self, name, failing)
                     ELSE MCPRouterClient_close_session(Self, name, failing))
    /\ closing' = [closing EXCEPT !.raised = @ \/ (raises /\ DictHas(sessions, name))]
    /\ UNCHANGED pending

\* await connector.connect() on the connector object
connect ==
    /\ conn.connects < MaxConnects
    /\ \E o \in MCPRouterConnector_connect_on(conn) :
          /\ conn' = [o.self EXCEPT !.connects = @ + 1]
          /\ last' = [Idle EXCEPT !.op = "connect", !.exc = o.exc, !.calls = o.calls,
                                  !.server_id = conn.server_id]
    /\ UNCHANGED <<kind, router_url, mcpRouter, router_headers, mcpServers,
                   sessions, active_sessions, next_session, disconnect_calls, pending,
                   closing>>

\* await connector.disconnect() on the connector object
disconnect ==
    /\ conn' = BaseConnector_disconnect(conn)
    /\ last' = [Idle EXCEPT !.op = "disconnect", !.server_id = conn.server_id]
    /\ UNCHANGED <<kind, router_url, mcpRouter, router_headers, mcpServers,
                   sessions, active_sessions, next_session, disconnect_calls, pending,
                   closing>>

(***************************************************************************)
(* Spec: the session lifecycle.                                            *)
(***************************************************************************)
Init == InitWith(ConfigsOver(Names, {FreshDescriptor}))

AddServer == \E name \in Names : add_server(name, FreshDescriptor)
RemoveServer == \E name \in Names : remove_server(name)
CreateSession ==
    \E name \in Names, auto_initialize \in BOOLEAN :
        create_session(name, auto_initialize, FALSE)
CloseSession == \E name \in Names, raises \in BOOLEAN : close_session(name, raises)
CloseAllSessions ==
    \E failing \in SUBSET Range(DictVals(sessions)) : close_all_sessions(failing)

Next ==
    \/ AddServer
    \/ RemoveServer
    \/ CreateSession
    \/ CloseSession
    \/ CloseAllSessions

Spec == Init /\ [][Next]_vars

(***************************************************************************)
(* SpecRegistration: one configured name, every answer of the router.      *)
(***************************************************************************)
Registered == {"server1"}

InitRegistration == InitWith(ConfigsOver(Registered, Descriptors))

AddRegistered == \E name \in Registered, d \in Descriptors : add_server(name, d)
RemoveRegistered == \E name \in Registered : remove_server(name)
CreateRegistered ==
    \E name \in Names, auto_initialize \in BOOLEAN, auto_register \in BOOLEAN :
        create_session(name, auto_initialize, auto_register)

NextRegistration ==
    \/ AddRegistered
    \/ RemoveRegistered
    \/ CreateRegistered

SpecRegistration == InitRegistration /\ [][NextRegistration]_vars

(***************************************************************************)
(* SpecRouterCalls: the caller registers, starts and lists directly.       *)
(***************************************************************************)
RegisterServer == \E name \in Names : register_server_with_router(name)
StartServer == \E name \in Names : start_server_in_router(name)
GetRouterServers == get_router_servers

NextRouterCalls ==
    \/ RegisterServer
    \/ StartServer
    \/ GetRouterServers

SpecRouterCalls == InitRegistration /\ [][NextRouterCalls]_vars

(***************************************************************************)
(* SpecRegisterAndCreate: the caller of an MCPClient registers directly    *)
(* and lets create_session register.                                       *)
(***************************************************************************)
NextRegisterAndCreate ==
    \/ RegisterServer
    \/ CreateRegistered

\* the claims checked here are MCPClient's
InitClientRegistration == InitRegistration /\ kind = "MCPClient"

SpecRegisterAndCreate == InitClientRegistration /\ [][NextRegisterAndCreate]_vars

(***************************************************************************)
(* SpecStartAndCreate: the caller starts servers directly and lets         *)
(* create_session register and start them.                                 *)
(***************************************************************************)
NextStartAndCreate ==
    \/ StartServer
    \/ CreateRegistered

SpecStartAndCreate == InitRegistration /\ [][NextStartAndCreate]_vars

(***************************************************************************)
(* SpecLifecycle: create_session await by await, one invocation at a time, *)
(* and close_session between invocations, from a configuration that was   *)
(* never registered.                                                       *)
(***************************************************************************)
BeginCreateSession ==
    \E name \in Names, auto_initialize \in BOOLEAN, auto_register \in BOOLEAN :
        create_session_begin(name, auto_initialize, auto_register)
Registering == create_session_register
Starting == create_session_start
Connecting == create_session_connect
CloseReady ==
    /\ pending.stage = "idle"
    /\ \E name \in Names, raises \in BOOLEAN : close_session(name, raises)

NextLifecycle ==
    \/ BeginCreateSession
    \/ Registering
    \/ Starting
    \/ Connecting
    \/ CloseReady

\* server1 is configured or not, with a descriptor that was never registered
InitLifecycle == InitWith(ConfigsOver(Registered, {FreshDescriptor}))

SpecLifecycle == InitLifecycle /\ [][NextLifecycle]_vars

(***************************************************************************)
(* SpecConcurrent: tasks that share one client.  One create_session and    *)
(* one close_session or close_all_sessions are in flight at a time, each   *)
(* interleaved with the other at its awaits; callers keep to names that no *)
(* invocation in flight has (a create_session to a name that              *)
(* close_all_sessions did not copy), but close_session may run for any     *)
(* name while close_all_sessions awaits.                                   *)
(***************************************************************************)
\* the names of the close invocation in flight
ClosingNames ==
    IF closing.stage = "idle" THEN {}
    ELSE IF closing.op = "close_session" THEN {closing.name}
    ELSE Range(closing.snapshot)
\* the name of the create_session in flight
CreatingNames == IF pending.stage = "idle" THEN {} ELSE {pending.name}

CreateBeside ==
    \E name \in Names \ ClosingNames, auto_initialize \in BOOLEAN :
        create_session_begin(name, auto_initialize, FALSE)
ConnectBeside == create_session_connect
CloseBegin == \E name \in Names \ CreatingNames : close_session_begin(name)
CloseResume == \E raises \in BOOLEAN : close_session_resume(raises)
CloseAllBegin ==
    /\ CreatingNames \cap Range(DictKeys(sessions)) = {}
    /\ close_all_sessions_begin
CloseAllResume == \E raises \in BOOLEAN : close_all_sessions_resume(raises)
CloseMeanwhile ==
    \E name \in Names \ CreatingNames, raises \in BOOLEAN :
        close_session_meanwhile(name, raises)

NextConcurrent ==
    \/ CreateBeside
    \/ ConnectBeside
    \/ CloseBegin
    \/ CloseResume
    \/ CloseAllBegin
    \/ CloseAllResume
    \/ CloseMeanwhile

\* both names are configured, with descriptors that were never registered
InitConcurrent == InitWith({[name \in Names |-> FreshDescriptor]})

SpecConcurrent == InitConcurrent /\ [][NextConcurrent]_vars

(***************************************************************************)
(* SpecHeaders: a client is constructed from a router section with or      *)
(* without auth token and additional headers; an MCPRouterClient then      *)
(* builds the connectors of its sessions from the same section.            *)
(***************************************************************************)
\* the client's __init__ sets up the headers of its router calls
construct ==
    /\ last.op = "init"
    /\ IF kind = "MCPClient"
       THEN /\ router_headers' = MCPClient_router_headers(mcpRouter)
            /\ mcpRouter' = mcpRouter
       ELSE LET c == MCPRouterConnector_init(mcpRouter.auth_token,
                                             mcpRouter.has_headers, mcpRouter.headers)
            IN  /\ router_headers' = c.headers
                /\ mcpRouter' = IF c.aliased THEN [mcpRouter EXCEPT !.headers = c.headers]
                                 ELSE mcpRouter
    /\ last' = [Idle EXCEPT !.op = "__init__"]
    /\ UNCHANGED <<kind, router_url, mcpServers, sessions, active_sessions,
                   next_session, disconnect_calls, conn, pending, closing>>

\* MCPRouterClient.create_session builds the session's MCPRouterConnector from
\* the router section (the descriptor has no auth_token and headers of its own)
session_connector ==
    /\ last.op # "init" /\ kind = "MCPRouterClient"
    /\ LET c == MCPRouterConnector_init(mcpRouter.auth_token,
                                        mcpRouter.has_headers, mcpRouter.headers)
       IN  /\ mcpRouter' = IF c.aliased THEN [mcpRouter EXCEPT !.headers = c.headers]
                            ELSE mcpRouter
           \* router_connector.headers is the same mapping when it was aliased too
           /\ router_headers' = IF c.aliased THEN c.headers ELSE router_headers
    /\ last' = [Idle EXCEPT !.op = "session_connector"]
    /\ UNCHANGED <<kind, router_url, mcpServers, sessions, active_sessions,
                   next_session, disconnect_calls, conn, pending, closing>>

InitHeaders ==
    /\ kind \in {"MCPClient", "MCPRouterClient"}
    /\ router_url = RouterUrl
    /\ mcpRouter \in RouterConfigs
    /\ router_headers = NoHeaders
    /\ mcpServers = <<>>
    /\ sessions = <<>>
    /\ active_sessions = <<>>
    /\ next_session = 1
    /\ disconnect_calls = [s \in SessionObjects |-> 0]
    /\ conn = ConnectorObject(None)
    /\ pending = NoInvocation
    /\ closing = NoClosing
    /\ last = Idle

Construct == construct
SessionConnector == session_connector

NextHeaders ==
    \/ Construct
    \/ SessionConnector

SpecHeaders == InitHeaders /\ [][NextHeaders]_vars

(***************************************************************************)
(* SpecConnector: one MCPRouterConnector object, connected and             *)
(* disconnected by its owner against every answer of the router.           *)
(***************************************************************************)
InitConnector ==
    /\ kind = "MCPRouterClient"
    /\ router_url = RouterUrl
    /\ mcpRouter = NoRouterConfig
    /\ router_headers = NoHeaders
    /\ mcpServers = <<>>
    /\ sessions = <<>>
    /\ active_sessions = <<>>
    /\ next_session = 1
    /\ disconnect_calls = [s \in SessionObjects |-> 0]
    /\ conn \in {ConnectorObject(server_id) : server_id \in Ids \cup {None}}
    /\ pending = NoInvocation
    /\ closing = NoClosing
    /\ last = Idle

Connect == connect
Disconnect == disconnect

NextConnector ==
    \/ Connect
    \/ Disconnect

SpecConnector == InitConnector /\ [][NextConnector]_vars

(***************************************************************************)
(* The claims.                                                             *)
(***************************************************************************)
IsClient == kind = "MCPClient"
IsRouterClient == kind = "MCPRouterClient"
NumCalls(calls, op) == Cardinality({i \in 1..Len(calls) : calls[i].op = op})
\* some register call of the invocation came back with a server id
RegisterResolved(calls) ==
    \E i \in 1..Len(calls) : calls[i].op = "register" /\ calls[i].ret \in Ids
OpenSessions == Range(DictVals(sessions))

\* C1: MCPClient.close_session(name) on a name with an open session leaves name
\* in neither the session map nor the active list, whether the disconnect
\* returned or raised.
C1_ClientCloseSessionRemoves ==
    [][(IsClient /\ last'.op = "close_session" /\ DictHas(sessions, last'.name))
          => (~DictHas(sessions', last'.name)
              /\ ~ListHas(active_sessions', last'.name))]_vars

\* C2: MCPRouterClient.close_session(name) on a name with an open session
\* removes name from the session map and the active list whether the disconnect
\* returned or raised, and ends without an exception.
C2_RouterCloseSessionRemoves ==
    [][(IsRouterClient /\ last'.op = "close_session" /\ DictHas(sessions, last'.name))
          => (/\ ~DictHas(sessions', last'.name)
              /\ ~ListHas(active_sessions', last'.name)
              /\ last'.attempted = <<DictGet(sessions, last'.name)>>
              /\ last'.exc = None)]_vars

\* C2 witness: a close_session whose disconnect raised has returned normally
\* and the name is gone
C2_Witness ==
    /\ IsRouterClient /\ last.op = "close_session"
    /\ last.failed # <<>> /\ last.exc = None
    /\ ~DictHas(sessions, last.name)

\* C3: MCPClient.close_all_sessions awaits disconnect exactly once on each
\* session that was in the map when it started, whichever of them raise, and
\* leaves the session map and the active list empty.
C3_ClientCloseAllEmpties ==
    [][(IsClient /\ last'.op = "close_all_sessions")
          => (/\ \A s \in SessionObjects :
                    Count(last'.attempted, s) = IF s \in OpenSessions THEN 1 ELSE 0
              /\ sessions' = <<>>
              /\ active_sessions' = <<>>)]_vars

\* C3 witness: two sessions were open and both disconnects raised
C3_Witness ==
    /\ IsClient /\ last.op = "close_all_sessions"
    /\ Len(last.attempted) = 2 /\ Len(last.failed) = 2
    /\ sessions = <<>>

\* C4: MCPClient.close_all_sessions ends with the one aggregate exception
\* exactly when some disconnect raised, and then only with every session of
\* the snapshot attempted and removed; otherwise it returns normally.
C4_ClientCloseAllRaisesOnce ==
    [][(IsClient /\ last'.op = "close_all_sessions")
          => (/\ last'.exc = IF last'.failed # <<>> THEN "Exception" ELSE None
              /\ last'.exc # None =>
                    (/\ OpenSessions \subseteq Range(last'.attempted)
                     /\ \A s \in OpenSessions : s \notin Range(DictVals(sessions'))))]_vars

\* C4 witness: of two open sessions one disconnect raised and one succeeded
C4_Witness ==
    /\ IsClient /\ last.op = "close_all_sessions"
    /\ Len(last.attempted) = 2 /\ Len(last.failed) = 1
    /\ last.exc = "Exception"

\* C5: MCPRouterClient.close_all_sessions returns with the session map and the
\* active list empty and with disconnect attempted on every session that was in
\* the map at the start, whichever disconnects raise.
C5_RouterCloseAllEmpties ==
    [][(IsRouterClient /\ last'.op = "close_all_sessions")
          => (/\ OpenSessions \subseteq Range(last'.attempted)
              /\ sessions' = <<>>
              /\ active_sessions' = <<>>)]_vars

\* C5 witness: of two open sessions one disconnect raised and one succeeded
C5_Witness ==
    /\ IsRouterClient /\ last.op = "close_all_sessions"
    /\ Len(last.attempted) = 2 /\ Len(last.failed) = 1
    /\ sessions = <<>> /\ active_sessions = <<>>

C8_CreateSessionConfigErrors ==
    [][(/\ IsClient /\ last'.op = "create_session"
        /\ \/ DOMAIN mcpServers = {}
           \/ last'.name \notin DOMAIN mcpServers
           \/ router_url = None)
          => (/\ last'.exc = "ValueError"
              /\ last'.calls = <<>>
              /\ last'.session = 0
              /\ UNCHANGED <<mcpServers, sessions, active_sessions>>)]_vars

\* C8 witness: auto-registering create_session of a configured name on a
\* client without router URL has failed
C8_Witness ==
    /\ IsClient /\ last.op = "create_session" /\ last.auto_register
    /\ router_url = None /\ last.name \in DOMAIN mcpServers
    /\ last.exc = "ValueError"

\* C9 as claimed: for a descriptor with no cached server_id,
\* MCPClient.create_session(name, auto_register=True) issues exactly one
\* register call and exactly one start call, whatever the router answers.
C9_OneRegisterOneStart ==
    [][(/\ IsClient /\ last'.op = "create_session" /\ last'.auto_register
        /\ router_url # None /\ last'.name \in DOMAIN mcpServers
        /\ mcpServers[last'.name].server_id = None)
          => (/\ NumCalls(last'.calls, "register") = 1
              /\ NumCalls(last'.calls, "start") = 1)]_vars

\* C9 as amended: for a command-based descriptor with no cached server_id,
\* MCPClient.create_session(name, auto_register=True) issues exactly one
\* register call, and exactly one start call if that registration resolved a
\* server id, none otherwise.
C9_OneRegisterStartIfResolved ==
    [][(/\ IsClient /\ last'.op = "create_session" /\ last'.auto_register
        /\ router_url # None /\ last'.name \in DOMAIN mcpServers
        /\ mcpServers[last'.name].server_id = None
        /\ mcpServers[last'.name].command)
          => (/\ NumCalls(last'.calls, "register") = 1
              /\ last'.calls[1].op = "register"
              /\ NumCalls(last'.calls, "start") =
                     IF RegisterResolved(last'.calls) THEN 1 ELSE 0)]_vars

\* C9 witness: the registration resolved no id, no start call was issued and
\* the session was stored all the same
C9_Witness ==
    /\ IsClient /\ last.op = "create_session" /\ last.auto_register
    /\ NumCalls(last.calls, "register") = 1 /\ ~RegisterResolved(last.calls)
    /\ NumCalls(last.calls, "start") = 0
    /\ last.exc = None /\ DictHas(sessions, last.name)

\* The server id a connector carries, if its type has one
ConnectorServerId(connector) ==
    IF "server_id" \in DOMAIN connector THEN connector.server_id ELSE None
\* The endpoint a connector targets
ConnectorTarget(connector) ==
    IF connector.type = "HttpConnector" THEN connector.base_url
    ELSE IF connector.type = "MCPRouterConnector" THEN connector.mcp_endpoint
    ELSE None

\* C10: the connector MCPClient.create_session builds targets
\* router_url + "/mcp" and carries the server id resolved in that invocation
\* (no id when none was resolved).
C10_ConnectorCarriesResolvedId ==
    (IsClient /\ last.op = "create_session" /\ last.connector # NoConnector)
        => (/\ ConnectorTarget(last.connector) = router_url \o "/mcp"
            /\ ConnectorServerId(last.connector) = last.server_id)

\* a register, start or list call that did not succeed
CallFailed(c) ==
    \/ c.op = "register" /\ c.ret \notin Ids
    \/ c.op = "start" /\ c.ret # "True"
    \/ c.op = "list" /\ (c.ret # None \/ c.listing = <<>>)
\* the session object of the invocation is stored under its name and is active
SessionStored ==
    /\ DictHas(sessions, last.name)
    /\ DictGet(sessions, last.name) = last.session
    /\ ListHas(active_sessions, last.name)

\* C11: in create_session with auto_register=True a failed register, start or
\* list call is not fatal: a connector and a session are still built, and if
\* the call then ends without exception the session is stored and active.
C11_RegistrationFailureNotFatal ==
    (/\ last.op = "create_session" /\ last.auto_register
     /\ \E i \in 1..Len(last.calls) : CallFailed(last.calls[i]))
        => (/\ last.connector # NoConnector
            /\ last.session # 0
            /\ last.exc = None => SessionStored)

\* MCPClient.create_session(name, auto_register=True) is about to run for a
\* configured name whose descriptor carries a cached server_id
ClientReconciles ==
    /\ IsClient /\ last'.op = "create_session" /\ last'.auto_register
    /\ router_url # None /\ last'.name \in DOMAIN mcpServers
    /\ mcpServers[last'.name].server_id \in Ids
\* the router's list came back, and the position of server_id in it (0: absent)
Listed(calls) == calls # <<>> /\ calls[1].op = "list" /\ calls[1].ret = None
ListedAt(calls, server_id) == FindServer(calls[1].listing, server_id, 1)
CallsOf(calls, op) == SelectSeq(calls, LAMBDA c : c.op = op)

\* C12: MCPClient.create_session(auto_register=True) for a cached server_id
\* that the router lists issues no register call; it issues no start call if
\* the listed status is online and exactly one start call, for that id, if not.
C12_ListedIdIsNotRegistered ==
    [][(/\ ClientReconciles /\ Listed(last'.calls)
        /\ ListedAt(last'.calls, mcpServers[last'.name].server_id) > 0)
          => LET server_id == mcpServers[last'.name].server_id
                 status == last'.calls[1].listing[ListedAt(last'.calls, server_id)].status
             IN  /\ NumCalls(last'.calls, "register") = 0
                 /\ status = "online" => NumCalls(last'.calls, "start") = 0
                 /\ status # "online" =>
                        CallsOf(last'.calls, "start") =
                            <<Call("start", server_id,
                                   CallsOf(last'.calls, "start")[1].ret, <<>>)>>]_vars

\* C12 witness: the cached id was listed as not online and was started
C12_Witness ==
    /\ IsClient /\ last.op = "create_session" /\ last.auto_register
    /\ Len(last.calls) = 2
    /\ last.calls[1].op = "list" /\ last.calls[2].op = "start"
    /\ ListedAt(last.calls, last.calls[2].arg) > 0
    /\ last.calls[1].listing[ListedAt(last.calls, last.calls[2].arg)].status = "offline"
    /\ mcpServers[last.name].server_id = last.calls[2].arg

\* what a stale cached id requires of the calls and of the descriptor afterwards
StaleRedone ==
    LET registers == CallsOf(last'.calls, "register")
        starts == CallsOf(last'.calls, "start")
    IN  /\ Len(registers) = 1
        /\ registers[1].ret \in Ids =>
              /\ mcpServers'[last'.name].server_id = registers[1].ret
              /\ Len(starts) = 1
              /\ starts[1].arg = registers[1].ret

\* C13 as claimed: MCPClient.create_session(auto_register=True) for a
\* descriptor whose cached server_id the router's list lacks issues one
\* register call and, when it succeeds, caches the new id and issues one start
\* call for the new id.
C13_StaleIdIsRegisteredAgain ==
    [][(/\ ClientReconciles /\ Listed(last'.calls)
        /\ ListedAt(last'.calls, mcpServers[last'.name].server_id) = 0)
          => StaleRedone]_vars

\* C13 as amended: the same, for a command-based descriptor; a descriptor
\* without command and args is not registered again (the call fails with
\* ValueError after the list call).
C13_StaleCommandIdIsRegisteredAgain ==
    [][(/\ ClientReconciles /\ Listed(last'.calls)
        /\ ListedAt(last'.calls, mcpServers[last'.name].server_id) = 0)
          => IF mcpServers[last'.name].command
             THEN StaleRedone
             ELSE /\ last'.exc = "ValueError"
                  /\ Len(last'.calls) = 1
                  /\ mcpServers' = mcpServers]_vars

\* C13 witness: after the list call a registration resolved an id, which is now
\* the cached one and the one started
C13_Witness ==
    /\ IsClient /\ last.op = "create_session" /\ last.auto_register
    /\ Len(last.calls) = 3
    /\ last.calls[1].op = "list" /\ last.calls[1].listing # <<>>
    /\ last.calls[2].op = "register" /\ last.calls[2].ret \in Ids
    /\ last.calls[3].op = "start" /\ last.calls[3].arg = last.calls[2].ret
    /\ mcpServers[last.name].server_id = last.calls[2].ret
    /\ \A i \in 1..Len(last.calls[1].listing) :
          last.calls[1].listing[i].id # last.calls[2].ret

\* MCPRouterClient.create_session(name, auto_register=True, auto_initialize=True)
\* is about to run for a configured name, on a client with a router connector
RouterClientCreates ==
    /\ IsRouterClient /\ last'.op = "create_session"
    /\ last'.auto_register /\ last'.auto_initialize
    /\ router_url # None /\ last'.name \in DOMAIN mcpServers
\* a list call came back with the given status for server_id (None: not listed)
ListShows(calls, server_id, statuses) ==
    \E i \in 1..Len(calls) :
        /\ calls[i].op = "list" /\ calls[i].ret = None
        /\ LET at == FindServer(calls[i].listing, server_id, 1)
           IN  (IF at = 0 THEN None ELSE calls[i].listing[at].status) \in statuses

\* C14: MCPRouterClient.create_session(auto_register=True, auto_initialize=True)
\* for a descriptor whose cached server_id the router's list lacks registers the
\* server again (one register call) instead of failing the session.
C14_RouterClientRedoesStaleId ==
    [][(/\ RouterClientCreates
        /\ mcpServers[last'.name].server_id \in Ids
        /\ ListShows(last'.calls, mcpServers[last'.name].server_id, {None}))
          => (/\ NumCalls(last'.calls, "register") = 1
              /\ last'.exc # "RuntimeError")]_vars

\* C15 as claimed: for a descriptor with no cached server_id,
\* MCPRouterClient.create_session(name, auto_register=True, auto_initialize=True)
\* issues, connect included, exactly one register call and exactly one start
\* call, and its connector carries the resolved id.
C15_RouterClientOneRegisterOneStart ==
    [][(RouterClientCreates /\ mcpServers[last'.name].server_id = None)
          => (/\ NumCalls(last'.calls, "register") = 1
              /\ NumCalls(last'.calls, "start") = 1
              /\ ConnectorServerId(last'.connector) = last'.server_id)]_vars

\* C15 as amended: exactly one register call is issued.  If it resolved no id,
\* no start call is issued and the connector carries no id.  If it resolved an
\* id, the connector (when one is built) carries it, create_session issues one
\* start call for it, and connect issues one more start call for it exactly
\* when the router's list shows the id with a status other than online.
C15_RouterClientStartsUpToTwice ==
    [][(RouterClientCreates /\ mcpServers[last'.name].server_id = None)
          => LET registers == CallsOf(last'.calls, "register")
                 starts == CallsOf(last'.calls, "start")
                 id == registers[1].ret
             IN  /\ Len(registers) = 1
                 /\ last'.calls[1].op = "register"
                 /\ IF id \notin Ids
                    THEN /\ starts = <<>>
                         /\ ConnectorServerId(last'.connector) = None
                    ELSE /\ last'.calls[2].op = "start"
                         /\ \A i \in 1..Len(starts) : starts[i].arg = id
                         /\ last'.connector # NoConnector =>
                               ConnectorServerId(last'.connector) = id
                         /\ Len(starts) =
                               IF ListShows(last'.calls, id, {"offline"})
                               THEN 2 ELSE 1]_vars

\* C15 witness: registered and started by create_session, listed as offline by
\* connect and started a second time; the session is stored
C15_Witness ==
    /\ IsRouterClient /\ last.op = "create_session"
    /\ last.auto_register /\ last.auto_initialize
    /\ Len(last.calls) = 4
    /\ last.calls[1].op = "register" /\ last.calls[1].ret \in Ids
    /\ last.calls[2].op = "start" /\ last.calls[3].op = "list"
    /\ last.calls[4].op = "start" /\ last.calls[4].arg = last.calls[1].ret
    /\ ConnectorServerId(last.connector) = last.calls[1].ret
    /\ last.exc = None /\ SessionStored

\* The router's reply to the request of the last operation
Reply == last.answer.reply
\* the reply is a 200/201 response whose results list has a successful entry
HasSuccessful(reply) ==
    /\ reply.kind = "response" /\ reply.status \in {200, 201} /\ reply.hasResults
    /\ \E i \in 1..Len(reply.results) : reply.results[i].success
\* the first entry, in list order, whose success flag is true
FirstSuccessful(results) ==
    results[CHOOSE i \in 1..Len(results) :
                results[i].success /\ \A j \in 1..(i - 1) : ~results[j].success]

\* C16: for a 200/201 registration response with a results list,
\* register_server_with_router returns the name of the first entry whose
\* success flag is true, and that id is cached as the descriptor's server_id.
C16_FirstSuccessfulEntryResolves ==
    (last.op = "register_server_with_router" /\ HasSuccessful(Reply))
        => (/\ last.exc = None
            /\ last.answer.ret = FirstSuccessful(Reply.results).name
            /\ last.answer.ret \in Ids =>
                  mcpServers[last.name].server_id = last.answer.ret)

\* C16 witness: results [{name id1, success false}, {name id2, success true}]
\* resolved to id2, which is cached
C16_Witness ==
    /\ last.op = "register_server_with_router"
    /\ Reply.kind = "response" /\ Reply.hasResults
    /\ Reply.results = <<[name |-> "id1", success |-> FALSE],
                         [name |-> "id2", success |-> TRUE]>>
    /\ last.answer.ret = "id2"
    /\ mcpServers[last.name].server_id = "id2"

\* C17: when the registration response has a status other than 200/201, no
\* results, an empty results list or no entry with success true,
\* register_server_with_router returns None and leaves the descriptor as it was.
C17_FailedRegistrationKeepsDescriptor ==
    [][(/\ last'.op = "register_server_with_router"
        /\ last'.answer.reply.kind = "response"
        /\ ~HasSuccessful(last'.answer.reply))
          => (/\ last'.exc = None
              /\ last'.answer.ret = None
              /\ mcpServers' = mcpServers)]_vars

\* C17 witness: a 200 response whose only entry failed; None came back and the
\* descriptor still carries its cached id
C17_Witness ==
    /\ last.op = "register_server_with_router"
    /\ Reply.kind = "response" /\ Reply.status = 200
    /\ Len(Reply.results) = 1 /\ ~Reply.results[1].success
    /\ last.answer.ret = None
    /\ mcpServers[last.name].server_id \in Ids

\* the HTTP call behind the last operation failed: a transport error, a
\* timeout, an undecodable body or a status that is not a success
HttpFailed ==
    \/ Reply.kind \in {"ClientError", "TimeoutError", "JSONDecodeError"}
    \/ /\ Reply.kind = "response"
       /\ Reply.status \notin (IF last.op = "register_server_with_router"
                               THEN {200, 201} ELSE {200})

\* C18: a failure of the HTTP call behind register, start or list is never
\* raised: register returns None, start returns False, list returns [].
C18_HttpFailuresAreSwallowed ==
    (/\ last.op \in {"register_server_with_router", "start_server_in_router",
                     "get_router_servers"}
     /\ HttpFailed)
        => (/\ last.exc = None
            /\ last.op = "register_server_with_router" => last.answer.ret = None
            /\ last.op = "start_server_in_router" => last.answer.ret = "False"
            /\ last.op = "get_router_servers" => last.answer.listing = <<>>)

\* C19: start_server_in_router, once the start request is sent, returns True
\* exactly when the router answers with status 200 and success true, and
\* False for every other outcome of the request.
C19_StartTrueIffSuccess ==
    (last.op = "start_server_in_router" /\ Reply.kind # "none")
        => (/\ last.exc = None
            /\ last.answer.ret =
                   IF Reply.kind = "response" /\ Reply.status = 200 /\ Reply.success
                   THEN "True" ELSE "False")

\* register_server_with_router(name) is about to run for a configured name
\* whose descriptor carries a cached server_id
RegistersCached ==
    /\ last'.op = "register_server_with_router"
    /\ router_url # None /\ last'.name \in DOMAIN mcpServers
    /\ mcpServers[last'.name].server_id \in Ids

\* C20 as claimed: register_server_with_router for a descriptor that already
\* carries a server_id returns that id and issues no call to the router.
C20_CachedIdIsReturned ==
    [][RegistersCached
          => (/\ last'.calls = <<>>
              /\ last'.exc = None
              /\ last'.answer.ret = mcpServers[last'.name].server_id)]_vars

\* C20 as amended: register_server_with_router does not look at the cached
\* server_id.  For a descriptor that carries one (command-based, in MCPClient)
\* it issues one register call and returns what the router's reply resolves:
\* the first successful entry's name, which replaces the cached id, or None.
C20_CachedIdIsRegisteredAgain ==
    [][(RegistersCached /\ (IsRouterClient \/ mcpServers[last'.name].command))
          => (/\ Len(last'.calls) = 1
              /\ last'.calls[1].op = "register" /\ last'.calls[1].arg = last'.name
              /\ last'.exc = None =>
                    /\ last'.answer.ret =
                          IF HasSuccessful(last'.answer.reply)
                          THEN FirstSuccessful(last'.answer.reply.results).name
                          ELSE None
                    /\ last'.answer.ret \in Ids =>
                          mcpServers'[last'.name].server_id = last'.answer.ret
                    /\ ~HasSuccessful(last'.answer.reply) =>
                          mcpServers' = mcpServers)]_vars

\* C20 witness: the router answered the register call with status 500; None
\* came back although the descriptor carries a cached id
C20_Witness ==
    /\ last.op = "register_server_with_router"
    /\ Len(last.calls) = 1
    /\ Reply.kind = "response" /\ Reply.status = 500
    /\ last.answer.ret = None
    /\ mcpServers[last.name].server_id \in Ids

\* the configured descriptor of the invocation's name has no command and args
LacksCommand ==
    /\ router_url # None /\ last'.name \in DOMAIN mcpServers
    /\ ~mcpServers[last'.name].command
\* register_server_with_router on it: ValueError before any request
RegisterRejectsUrlDescriptor ==
    (IsClient /\ last'.op = "register_server_with_router" /\ LacksCommand)
       => (/\ last'.exc = "ValueError"
           /\ last'.calls = <<>>
           /\ last'.answer.reply.kind = "none"
           /\ mcpServers' = mcpServers)
\* create_session(auto_register=True) comes to the register call: no cached
\* server_id, or a cached one that the list that came back does not hold
ReachesRegister ==
    \/ mcpServers[last'.name].server_id = None
    \/ /\ Listed(last'.calls)
       /\ ListedAt(last'.calls, mcpServers[last'.name].server_id) = 0
NoSessionStored ==
    /\ last'.session = 0
    /\ sessions' = sessions
    /\ active_sessions' = active_sessions

C22_ConnectIsIdempotent ==
    [][(last'.op = "connect" /\ conn.connected)
          => (/\ last'.calls = <<>> /\ last'.exc = None
              /\ conn'.streams = conn.streams
              /\ conn'.clients = conn.clients
              /\ conn'.cleanups = conn.cleanups
              /\ conn'.connected
              /\ conn'.connection_manager = conn.connection_manager
              /\ conn'.client = conn.client
              /\ conn'.server_id = conn.server_id)]_vars

\* C22 witness: a connector bound to a server id was connected by its first
\* connect() and connect() was called on it again
C22_Witness ==
    /\ last.op = "connect" /\ conn.server_id \in Ids
    /\ conn.connects = 2 /\ conn.streams = 1 /\ conn.cleanups = 0
    /\ conn.connected /\ conn.connection_manager = 1 /\ conn.client = 1

\* connect() runs on a connector object that is bound to a server id and is
\* not connected
ConnectsBound == last'.op = "connect" /\ ~conn.connected /\ conn.server_id \in Ids
\* the list that came back shows the id with a status other than online, and
\* the start request that followed did not succeed
StartFailed(calls, server_id) ==
    /\ Listed(calls) /\ ListedAt(calls, server_id) > 0
    /\ calls[1].listing[ListedAt(calls, server_id)].status # "online"
    /\ Len(calls) = 2 /\ calls[2].op = "start" /\ calls[2].ret # "True"

\* C23: connect() on a connector bound to a server id runs the ensure-running
\* step before opening the stream, and ends with RuntimeError, no stream
\* opened, both when the router's list lacks the server and when the server is
\* listed not online and the start request fails.
C23_EnsureRunningFailureRaises ==
    [][ConnectsBound
          => (/\ last'.calls # <<>> /\ last'.calls[1].op = "list"
              /\ (Listed(last'.calls) /\ ListedAt(last'.calls, conn.server_id) = 0)
                    => (last'.exc = "RuntimeError" /\ conn'.streams = conn.streams)
              /\ StartFailed(last'.calls, conn.server_id)
                    => (last'.exc = "RuntimeError" /\ conn'.streams = conn.streams))]_vars

\* C24: when a step of connect() fails (ensure-running, the stream's start or
\* the client session's entry), the cleanup runs once and the exception is
\* raised to the caller, the connector is not marked connected, and the next
\* connect() runs every step again: the list call for a bound server id, a new
\* connection manager, a new client session.
C24_FailedConnectCleansUpAndRetries ==
    [][/\ (last'.op = "connect" /\ ~conn.connected /\ last'.exc # None)
            => (/\ conn'.cleanups = conn.cleanups + 1
                /\ ~conn'.connected
                /\ conn'.streams - conn.streams \in {0, 1}
                /\ conn'.clients - conn.clients \in {0, 1})
       /\ (last.op = "connect" /\ last.exc # None /\ last'.op = "connect")
            => (/\ ~conn.connected
                /\ conn.server_id \in Ids
                      => (last'.calls # <<>> /\ last'.calls[1].op = "list")
                /\ last'.exc = None
                      => (/\ conn'.connected
                          /\ conn'.streams = conn.streams + 1
                          /\ conn'.clients = conn.clients + 1
                          /\ conn'.connection_manager = conn'.streams
                          /\ conn'.client = conn'.clients))]_vars

\* C24 witness: the first connect() of a bound connector failed when its
\* stream was started, and the second one opened a second stream and connected
C24_Witness ==
    /\ last.op = "connect" /\ last.exc = None /\ conn.server_id \in Ids
    /\ conn.connects = 2 /\ conn.cleanups = 1
    /\ conn.streams = 2 /\ conn.clients = 1
    /\ conn.connected

\* C25: in every state reached through add_server, remove_server,
\* create_session, close_session and close_all_sessions, however they end,
\* every name in the active list is a key of the session map.
C25_ActiveNamesAreSessionKeys ==
    \A i \in 1..Len(active_sessions) : DictHas(sessions, active_sessions[i])

\* C25 witness: of two open sessions one was made inactive by remove_server,
\* the other is still active
C25_Witness ==
    /\ last.op = "remove_server" /\ last.exc = None
    /\ Len(DictKeys(sessions)) = 2 /\ Len(active_sessions) = 1
    /\ DictHas(sessions, last.name)

\* C26: in every state reached through the same operations no name occurs
\* more than once in the active list.
C26_ActiveNamesAreDistinct ==
    \A i, j \in 1..Len(active_sessions) :
        active_sessions[i] = active_sessions[j] => i = j

\* C26 witness: a second session was created for a name whose first session
\* was never closed, and the name is active once
C26_Witness ==
    /\ last.op = "create_session" /\ last.exc = None /\ last.session = 2
    /\ \A s \in SessionObjects : disconnect_calls[s] = 0
    /\ DictKeys(sessions) = <<last.name>>
    /\ active_sessions = <<last.name>>

\* the phases of a create_session invocation before its session is ready
Phases == {"registering", "starting", "connecting"}

\* C27 as claimed: while a create_session invocation for a name is in its
\* registering, starting or connecting phase the name is a key of the session
\* map.
C27_NameIsKeyedWhileCreating ==
    pending.stage \in Phases => DictHas(sessions, pending.name)

\* C27 amended: a create_session invocation leaves the session map and the
\* active list alone through its registering, starting and connecting phases;
\* a name becomes a key of the session map only when the connecting phase of an
\* invocation for it ends without exception (Ready), which stores that
\* invocation's session and makes the name active; and a key leaves the map
\* only through close_session.
C27_NameIsKeyedOnceReady ==
    [][/\ pending'.stage \in Phases
            => (sessions' = sessions /\ active_sessions' = active_sessions)
       /\ \A n \in Names :
             (~DictHas(sessions, n) /\ DictHas(sessions', n))
                => (/\ pending.stage = "connecting" /\ pending.name = n
                    /\ pending'.stage = "idle"
                    /\ last'.op = "create_session" /\ last'.exc = None
                    /\ DictGet(sessions', n) = last'.session)
       /\ (pending.stage = "connecting" /\ last'.exc = None)
            => (/\ DictHas(sessions', pending.name)
                /\ DictGet(sessions', pending.name) = next_session
                /\ ListHas(active_sessions', pending.name))
       /\ \A n \in Names :
             (DictHas(sessions, n) /\ ~DictHas(sessions', n))
                => (last'.op = "close_session" /\ last'.name = n)]_vars

\* C27 witness: the first create_session for a name has registered the server
\* and is starting it, and the name is not a key of the session map
C27_Witness ==
    /\ pending.stage = "starting"
    /\ NumCalls(pending.calls, "register") = 1
    /\ mcpServers[pending.name].server_id \in Ids
    /\ sessions = <<>> /\ next_session = 1

\* name has an open session but no descriptor any more
Orphaned(name) == DictHas(sessions, name) /\ name \notin DOMAIN mcpServers

C29_DuplicateAddIsRejected ==
    [][(last'.op = "add_server" /\ last'.name \in DOMAIN mcpServers)
          => (last'.exc = "ValueError" /\ mcpServers' = mcpServers)]_vars

\* C30: MCPClient.create_session(name, auto_register=False) that passes its
\* checks issues no register, start or list call and changes no descriptor; it
\* builds the connector for router_url + "/mcp" and one session, performs the
\* handshake exactly when auto_initialize is set, and stores the session under
\* the name unless the handshake raised.
C30_NoRegistrationWithoutAutoRegister ==
    [][(/\ IsClient /\ last'.op = "create_session" /\ ~last'.auto_register
        /\ MCPClient_create_session_check(Self, last'.name) = None)
          => (/\ last'.calls = <<>>
              /\ mcpServers' = mcpServers
              /\ ConnectorTarget(last'.connector) = router_url \o "/mcp"
              /\ last'.session = next_session
              /\ last'.initialized = (IF last'.auto_initialize THEN 1 ELSE 0)
              /\ ~last'.auto_initialize => last'.exc = None
              /\ IF last'.exc = None
                 THEN /\ sessions' = DictSet(sessions, last'.name, last'.session)
                      /\ ListHas(active_sessions', last'.name)
                 ELSE sessions' = sessions /\ active_sessions' = active_sessions)]_vars

\* C30 witness: create_session(auto_register=False, auto_initialize=True) for
\* a descriptor with a cached server_id has stored its session without a call
C30_Witness ==
    /\ IsClient /\ last.op = "create_session" /\ ~last.auto_register
    /\ last.auto_initialize /\ last.exc = None
    /\ last.name \in DOMAIN mcpServers
    /\ mcpServers[last.name].server_id \in Ids
    /\ last.calls = <<>> /\ last.initialized = 1
    /\ DictHas(sessions, last.name) /\ DictGet(sessions, last.name) = last.session

\* C31: a create_session that builds its session awaits the handshake
\* (initialize) once if auto_initialize is true and not at all if it is false;
\* a create_session that builds none awaits none; and a create_session that
\* ends without exception has stored its session under the name and the name
\* is in the active list.
C31_HandshakeOnceIfAutoInitialize ==
    [][last'.op = "create_session"
          => (/\ last'.initialized =
                     (IF last'.session # 0 /\ last'.auto_initialize THEN 1 ELSE 0)
              /\ last'.exc = None
                    => (/\ last'.session = next_session
                        /\ DictHas(sessions', last'.name)
                        /\ DictGet(sessions', last'.name) = last'.session
                        /\ Count(active_sessions', last'.name) = 1))]_vars

\* C31 witness: a create_session that registered and started the server has
\* performed the handshake and stored its session
C31_Witness ==
    /\ last.op = "create_session" /\ last.auto_initialize /\ last.auto_register
    /\ NumCalls(last.calls, "start") = 1
    /\ last.initialized = 1 /\ last.exc = None
    /\ SessionStored

\* the headers a client constructed from the router section `cfg` sends: the
\* token's Authorization if a token is configured, and every additional
\* header, save one that would replace the token's
HeadersMerged(cfg, sent) ==
    /\ cfg.auth_token # None
          => (/\ "Authorization" \in DOMAIN sent
              /\ sent["Authorization"] = Bearer(cfg.auth_token))
    /\ \A n \in DOMAIN cfg.headers :
          /\ n \in DOMAIN sent
          /\ (n # "Authorization" \/ cfg.auth_token = None) => sent[n] = cfg.headers[n]
    /\ DOMAIN sent \subseteq DOMAIN cfg.headers \cup {"Authorization"}

\* C32: the headers used for router calls carry Authorization: Bearer <token>
\* whenever an auth token is configured, and the configured additional headers
\* are merged in without replacing that entry, in MCPClient and in
\* MCPRouterConnector alike.
C32_TokenHeaderIsKept ==
    [][last'.op = "__init__" => HeadersMerged(mcpRouter, router_headers')]_vars

\* C40: building an MCPRouterConnector from the configured headers mapping, as
\* MCPRouterClient.__init__ and MCPRouterClient.create_session do, leaves the
\* client's router section unchanged: its headers mapping neither gains nor
\* changes an Authorization entry.
C40_RouterConfigIsNotWritten ==
    [][(IsRouterClient /\ last'.op \in {"__init__", "session_connector"})
          => mcpRouter' = mcpRouter]_vars

(***************************************************************************)
(* C35: across any sequential series of close_session and                  *)
(* close_all_sessions calls, whether the disconnects succeed or raise, the *)
(* client invokes disconnect at most once on any given session object.     *)
(* MCPClient.close_session keeps the entry of a session whose disconnect   *)
(* raised, so the next close of that name awaits disconnect on it again.   *)
(***************************************************************************)
C35_DisconnectAtMostOnce ==
    \A s \in SessionObjects : disconnect_calls[s] <= 1

(***************************************************************************)
(* C36: no session leaves the session map without the client having        *)
(* awaited its disconnect; in particular a successful create_session for a *)
(* name that already has an open session does not leave the previous       *)
(* session unindexed and never disconnected.  Both create_session methods  *)
(* assign self.sessions[server_name] over the entry that is there.         *)
(***************************************************************************)
C36_NoSessionDroppedUndisconnected ==
    [][\A s \in OpenSessions :
          s \notin Range(DictVals(sessions')) => disconnect_calls'[s] >= 1]_vars

(***************************************************************************)
(* C37: a create_session that fails after its checks (the connector cannot *)
(* be built, or the connect or the handshake raises) leaves the session    *)
(* map and the active list exactly as they were, so a session stored       *)
(* earlier under the name stays indexed, and the server_id that a          *)
(* successful registration of the same call cached stays on the descriptor.*)
(***************************************************************************)
C37_FailedCreateKeepsSessions ==
    [][(/\ last'.op = "create_session" /\ last'.exc # None
        /\ create_session_check(last'.name) = None)
          => (/\ sessions' = sessions
              /\ active_sessions' = active_sessions
              /\ \A i \in 1..Len(last'.calls) :
                    (last'.calls[i].op = "register" /\ last'.calls[i].ret \in Ids)
                       => mcpServers'[last'.name].server_id = last'.calls[i].ret)]_vars

\* C37 witness: the handshake of a create_session raised after the call had
\* registered the server, for a name that has a session from an earlier call
C37_Witness ==
    /\ last.op = "create_session" /\ last.exc # None
    /\ last.session # 0 /\ last.initialized = 1
    /\ RegisterResolved(last.calls)
    /\ mcpServers[last.name].server_id \in Ids
    /\ DictHas(sessions, last.name) /\ DictGet(sessions, last.name) # last.session
    /\ ListHas(active_sessions, last.name)

\* the start request calls[i] comes after a register response that carried an
\* id, or after a list response that shows its id with a status other than online
StartIsDue(calls, i) ==
    \E j \in 1..(i - 1) :
        \/ calls[j].op = "register" /\ calls[j].ret \in Ids
        \/ /\ calls[j].op = "list" /\ calls[j].ret = None
           /\ LET at == FindServer(calls[j].listing, calls[i].arg, 1)
              IN  at # 0 /\ calls[j].listing[at].status # "online"

(***************************************************************************)
(* C38: within one create_session invocation every start request follows a *)
(* successful register response or a list response that shows the id with  *)
(* a status other than online, and no start request carries an absent id;  *)
(* MCPClient.start_server_in_router on a descriptor without cached         *)
(* server_id returns False without sending a request.                      *)
(***************************************************************************)
C38_StartFollowsRegisterOrList ==
    [][/\ last'.op = "create_session"
          => \A i \in 1..Len(last'.calls) :
                last'.calls[i].op = "start"
                   => (last'.calls[i].arg \in Ids /\ StartIsDue(last'.calls, i))
       /\ (/\ IsClient /\ last'.op = "start_server_in_router"
           /\ router_url # None /\ last'.name \in DOMAIN mcpServers
           /\ Falsy(mcpServers[last'.name].server_id))
          => (last'.exc = None /\ last'.answer.ret = "False" /\ last'.calls = <<>>)]_vars

\* C38 witness: an MCPClient's create_session has registered the server and
\* its last request is the start of the id that came back
C38_Witness ==
    /\ IsClient /\ last.op = "create_session"
    /\ NumCalls(last.calls, "start") = 1 /\ RegisterResolved(last.calls)
    /\ last.calls[Len(last.calls)].op = "start"

\* the list call of the invocation is the one a failed list request leaves:
\* an error status or a transport error, given back as an empty list
ListFailed(calls) ==
    /\ calls # <<>>
    /\ \E reply \in {HttpResponse(500), HttpError("ClientError")} :
          calls[1] = MCPClient_list_reply(Self, reply).calls[1]

\* what follows a list that lacks the cached id: one register call, a start
\* call iff the registration gave an id, and a session is built
RegisteredAndBuilt ==
    LET registers == CallsOf(last'.calls, "register")
        starts == CallsOf(last'.calls, "start")
    IN  /\ Len(registers) = 1
        /\ Len(starts) = (IF registers[1].ret \in Ids THEN 1 ELSE 0)
        /\ last'.session # 0

(***************************************************************************)
(* C39: in MCPClient.create_session(auto_register=True) with a cached      *)
(* server_id, a list call that failed (error status or transport error,    *)
(* given back as an empty list) is taken as the id being absent: exactly   *)
(* one register call is issued, a start call follows iff the registration  *)
(* succeeds, and in every case the call goes on to build the session.      *)
(* The register and start requests raise what `except aiohttp.ClientError` *)
(* does not catch, and a descriptor without command is not registered.     *)
(***************************************************************************)
C39_FailedListIsAbsentId ==
    [][(ClientReconciles /\ ListFailed(last'.calls)) => RegisteredAndBuilt]_vars

\* the step ends a close_all_sessions invocation
CloseAllEnds ==
    /\ closing'.op = "close_all_sessions" /\ closing'.stage = "idle"
    /\ closing' # closing

(***************************************************************************)
(* C33: close_all_sessions iterates over a copy of the names and is safe   *)
(* against other tasks changing the map at its awaits: when a              *)
(* close_session for a copied name, or a create_session for a new name,    *)
(* runs in between, close_all_sessions still comes to every copied name,   *)
(* reports no failure if no disconnect raised, and leaves no copied name   *)
(* in the session map or the active list.  In MCPClient the loop looks the *)
(* session up again (self.sessions[server_name]) inside its try, so a name *)
(* closed in between raises KeyError there and is reported as a failure.   *)
(***************************************************************************)
C33_CloseAllToleratesOtherTasks ==
    [][CloseAllEnds
          => (/\ closing'.todo = <<>>
              /\ ~closing'.raised => last'.exc = None
              /\ \A name \in Range(closing'.snapshot) :
                    ~DictHas(sessions', name) /\ ~ListHas(active_sessions', name))]_vars

\* the step ends a close_session that awaited while a create_session was in
\* flight or built its session
CloseEndsBeside ==
    /\ closing.op = "close_session" /\ closing.stage = "awaiting"
    /\ closing'.stage = "idle"
    /\ closing'.beside # None \/ next_session > closing.built
\* the step ends a create_session that was in flight while a close_session awaited
CreateEndsBeside ==
    /\ pending.stage = "connecting" /\ pending'.stage = "idle"
    /\ closing.op = "close_session"
    /\ closing.stage = "awaiting" \/ closing.beside = pending.name
\* close_session(closing.name) run at once, from call to return, by a client
\* that is as this one is now
ClosedAtOnce(raises) ==
    LET failing == IF raises THEN {AwaitedSession(Self, closing.name)} ELSE {}
    IN  IF kind = "MCPClient"
        THEN MCPClient_close_session(Self, closing.name, failing)
        ELSE MCPRouterClient_close_session(Self, closing.name, failing)
\* the results of create_session(pending.name, ...) run at once
CreatedAtOnce ==
    IF kind = "MCPClient"
    THEN MCPClient_create_session(Self, pending.name, pending.auto_initialize,
                                  pending.auto_register, next_session)
    ELSE MCPRouterClient_create_session(Self, pending.name, pending.auto_initialize,
                                        pending.auto_register, next_session)

(***************************************************************************)
(* C34: a create_session and a close_session on distinct names that        *)
(* interleave at their awaits do not interfere.  Each takes effect in one   *)
(* step, as the same call run from start to end would on the client as it   *)
(* is at that step, so the session map and the active list end as after the *)
(* two calls made one after the other, in the order of those steps; and in  *)
(* every state in between the active names are keys of the session map and  *)
(* no name is active twice.                                                 *)
(***************************************************************************)
C34_DistinctNamesDoNotInterfere ==
    [][/\ \A name \in Names :
             /\ ListHas(active_sessions', name) => DictHas(sessions', name)
             /\ Count(active_sessions', name) <= 1
       /\ CloseEndsBeside
             => \E raises \in BOOLEAN :
                   /\ closing'.raised = raises
                   /\ sessions' = ClosedAtOnce(raises).self.sessions
                   /\ active_sessions' = ClosedAtOnce(raises).self.active_sessions
                   /\ last'.exc = ClosedAtOnce(raises).exc
       /\ CreateEndsBeside
             => \E r \in CreatedAtOnce :
                   /\ sessions' = r.self.sessions
                   /\ active_sessions' = r.self.active_sessions
                   /\ last'.exc = r.exc /\ last'.session = r.session]_vars

\* C34 witness: a close_session has ended without exception after a
\* create_session for the other name stored its session during the close's
\* await; the closed name is gone, the created one is indexed and active
C34_Witness ==
    /\ last.op = "close_session" /\ last.exc = None
    /\ closing.op = "close_session" /\ closing.stage = "idle"
    /\ closing.beside # None /\ closing.beside # closing.name
    /\ next_session > closing.built
    /\ DictHas(closing.before.sessions, closing.name)
    /\ ~DictHas(closing.before.sessions, closing.beside)
    /\ ~DictHas(sessions, closing.name) /\ ~ListHas(active_sessions, closing.name)
    /\ DictHas(sessions, closing.beside) /\ ListHas(active_sessions, closing.beside)

====
